---- MODULE Spec2Model ----
(***************************************************************************)
(* A model of debugedit (src/tools/debugedit.c): the two-phase DWARF       *)
(* rewriter, its string pools, line-table registry and the tail of main    *)
(* (section reflow, build-ID recomputation, final ELF write).              *)
(*                                                                         *)
(* Bytes are integers 0..255, C strings are sequences of non-zero bytes,   *)
(* section payloads are sequences of bytes addressed by 0-based offsets.   *)
(***************************************************************************)
EXTENDS Integers, Sequences, FiniteSets, TLC

VARIABLES
  \* ---- configuration (the option globals set by main, debugedit.c:93-100)
  base_dir,          \* char *base_dir, canonicalized (NULLP when not given)
  dest_dir,          \* char *dest_dir, canonicalized (NULLP when not given)
  opt,               \* do_build_id, no_recompute_build_id, build_id_seed
  list_file_fd,      \* int list_file_fd, -1 without -l
  list_file,         \* the bytes the run appended to the list file
  \* ---- the file and the open DSO
  disk,              \* the file: per section its data and section header
  ei_data,           \* dso->ehdr.e_ident[EI_DATA]
  phnum,             \* dso->phnum
  scn,               \* the Elf_Data payload of every section, by name
  shdr,              \* dso->shdr[], the headers cached by fdopen_dso
  elf,               \* libelf's own section headers and e_shoff
  heap,              \* the byte a read of uninitialized malloc memory gives
  \* ---- edit_dwarf2
  need,              \* need_*_update, need_string_replacement, dirty_elf
  lines,             \* dso->lines (struct debug_lines)
  dso_strings,       \* dso->debug_str and dso->debug_line_str
  cus,               \* dso->cus, oldest first
  phase,             \* int phase of edit_dwarf2
  walk,              \* locals of edit_info and edit_attributes
  edit_dwarf2_ret,   \* what edit_dwarf2 returned (-1 before it returns)
  \* ---- main
  build_id,          \* build_id, build_id_offset, build_id_size of main
  diag,              \* what error () printed so far, in order
  stdout,            \* what was printed on stdout
  exit_code,         \* the exit status (-1 while running)
  written,           \* how often elf_update (ELF_C_WRITE) ran in this run
  run,               \* 1 for the first run on the file, 2 for a second one
  out1,              \* the file as the first run left it (for run 2)
  pc,                \* where the program is
  \* ---- the utilities on their own
  call               \* a utility call: fn, its arguments, ret once returned

vars ==
  <<base_dir, dest_dir, opt, list_file_fd, list_file, disk, ei_data, phnum, scn, shdr, elf, heap,
    need, lines, dso_strings, cus, phase, walk, edit_dwarf2_ret, build_id, diag,
    stdout, exit_code, written, run, out1, pc, call>>

(***************************************************************************)
(* Bytes, C strings                                                        *)
(***************************************************************************)

\* The NULL pointer for a char *: no C string holds a NUL byte.
NULLP == <<0>>

\* A uint32_t of 2^31 or more is held as the int32_t with the same bit
\* pattern (v - 2^32), so that every 32-bit value fits the checker's
\* integers; UINT_MAX (0xffffffff) is then -1.  Sizes of sections stay
\* below 2^31, so such a value is larger than every size and offset.
UINT_MAX == -1

\* v is a uint32_t of 2^31 or more.
Big(v) == v < 0

\* IS_DIR_SEPARATOR(c) is (c) == '/'.
Slash == 47

IS_DIR_SEPARATOR(c) == c = Slash

\* The byte at 0-based offset p of buf.
ByteAt(buf, p) == buf[p + 1]

\* strlen of the C string starting at offset p of buf.
RECURSIVE strlen_at(_, _)
strlen_at(buf, p) ==
  IF p >= Len(buf) \/ ByteAt(buf, p) = 0 THEN 0 ELSE 1 + strlen_at(buf, p + 1)

\* The C string starting at offset p of buf, without its terminator.
CStr(buf, p) == SubSeq(buf, p + 1, p + strlen_at(buf, p))

\* buf with the bytes bs written at offset p (memcpy (buf + p, bs, Len(bs))).
Splice(buf, p, bs) ==
  [i \in 1..Len(buf) |-> IF i > p /\ i <= p + Len(bs) THEN bs[i - p] ELSE buf[i]]

\* n copies of the byte c.
Fill(c, n) == [i \in 1..n |-> c]

(***************************************************************************)
(* 4.A byte codec                                                          *)
(***************************************************************************)

buf_read_ule16(buf, p) == ByteAt(buf, p) + ByteAt(buf, p + 1) * 256

buf_read_ube16(buf, p) == ByteAt(buf, p + 1) + ByteAt(buf, p) * 256

buf_read_ule24(buf, p) ==
  ByteAt(buf, p) + ByteAt(buf, p + 1) * 256 + ByteAt(buf, p + 2) * 65536

buf_read_ube24(buf, p) ==
  ByteAt(buf, p + 2) + ByteAt(buf, p + 1) * 256 + ByteAt(buf, p) * 65536

\* The most significant byte b of a 32-bit value, as its signed weight.
TopByte(b) == IF b >= 128 THEN b - 256 ELSE b

buf_read_ule32(buf, p) ==
  ByteAt(buf, p) + ByteAt(buf, p + 1) * 256
  + ByteAt(buf, p + 2) * 65536 + TopByte(ByteAt(buf, p + 3)) * 16777216

buf_read_ube32(buf, p) ==
  ByteAt(buf, p + 3) + ByteAt(buf, p + 2) * 256
  + ByteAt(buf, p + 1) * 65536 + TopByte(ByteAt(buf, p)) * 16777216

\* do_read_16 / do_read_32 as wired by edit_dwarf2 from EI_DATA.
do_read_16(buf, p) ==
  IF ei_data = "ELFDATA2LSB" THEN buf_read_ule16(buf, p) ELSE buf_read_ube16(buf, p)

do_read_24(buf, p) ==
  IF ei_data = "ELFDATA2LSB" THEN buf_read_ule24(buf, p) ELSE buf_read_ube24(buf, p)

do_read_32(buf, p) ==
  IF ei_data = "ELFDATA2LSB" THEN buf_read_ule32(buf, p) ELSE buf_read_ube32(buf, p)

dwarf2_write_le16(v) == <<v % 256, (v \div 256) % 256>>

dwarf2_write_be16(v) == <<(v \div 256) % 256, v % 256>>

dwarf2_write_le32(v) ==
  <<v % 256, (v \div 256) % 256, (v \div 65536) % 256, (v \div 16777216) % 256>>

dwarf2_write_be32(v) ==
  <<(v \div 16777216) % 256, (v \div 65536) % 256, (v \div 256) % 256, v % 256>>

\* The bytes do_write_16 / do_write_32 store for the (truncated) value v.
do_write_16(v) ==
  IF ei_data = "ELFDATA2LSB" THEN dwarf2_write_le16(v)
  ELSE dwarf2_write_be16(v)

do_write_32(v) ==
  IF ei_data = "ELFDATA2LSB" THEN dwarf2_write_le32(v)
  ELSE dwarf2_write_be32(v)

\* The number of bytes read_uleb128 consumes at offset p.
RECURSIVE uleb128_len(_, _)
uleb128_len(buf, p) ==
  IF ByteAt(buf, p) >= 128 THEN 1 + uleb128_len(buf, p + 1) ELSE 1

\* ret |= (c & 0x7f) << shift, over the bytes from offset p on.
RECURSIVE uleb128_bits(_, _, _)
uleb128_bits(buf, p, shift) ==
  (ByteAt(buf, p) % 128) * (2 ^ shift)
  + (IF ByteAt(buf, p) >= 128 THEN uleb128_bits(buf, p + 1, shift + 7) ELSE 0)

\* read_uleb128: the value; five bytes or more (shift >= 35) give UINT_MAX.
\* Four bytes or fewer hold at most 28 bits.
read_uleb128(buf, p) ==
  IF 7 * uleb128_len(buf, p) >= 35 THEN UINT_MAX
  ELSE uleb128_bits(buf, p, 0)

\* val >> 7 for the uint32_t val.
ShiftRight7(val) ==
  IF Big(val) THEN (val \div 128) + 33554432 ELSE val \div 128

\* write_uleb128: the bytes emitted for val (a uint32_t).
RECURSIVE write_uleb128(_)
write_uleb128(val) ==
  IF ShiftRight7(val) # 0
  THEN <<(val % 128) + 128>> \o write_uleb128(ShiftRight7(val))
  ELSE <<val % 128>>

(***************************************************************************)
(* 4.B path utilities                                                      *)
(***************************************************************************)

\* strncmp (path, dir_prefix, strlen (dir_prefix)) == 0
HasPrefix(path, prefix) ==
  Len(prefix) <= Len(path) /\ SubSeq(path, 1, Len(prefix)) = prefix

RECURSIVE SkipSeparators(_)
SkipSeparators(s) ==
  IF s # <<>> /\ IS_DIR_SEPARATOR(Head(s)) THEN SkipSeparators(Tail(s)) ELSE s

\* A skip_dir_prefix that takes every path to lie under dir_prefix.
skip_dir_prefix_any(path, dir_prefix) == SkipSeparators(path)

\* skip_dir_prefix: the rest of path after dir_prefix and any '/', or NULLP.
skip_dir_prefix(path, dir_prefix) ==
  IF HasPrefix(path, dir_prefix)
  THEN LET rest == SubSeq(path, Len(dir_prefix) + 1, Len(path)) IN
       IF rest # <<>> /\ ~IS_DIR_SEPARATOR(Head(rest)) THEN NULLP
       ELSE SkipSeparators(rest)
  ELSE NULLP

\* The path written for a string under base_dir whose remainder is file:
\* dest_dir, then '/' and file when file is not empty.
ReplacementPath(file) ==
  IF Len(file) > 0 THEN dest_dir \o <<Slash>> \o file ELSE dest_dir

\* *s for the C string s at 0-based index i (0 at its end).
CharAt(s, i) == IF i < Len(s) THEN s[i + 1] ELSE 0

\* A skip that passes over one separator at most.
skip_separators_one(s, i) ==
  IF IS_DIR_SEPARATOR(CharAt(s, i)) THEN i + 1 ELSE i

\* while (IS_DIR_SEPARATOR (*s)) s++: the index after the separators at i.
RECURSIVE skip_separators(_, _)
skip_separators(s, i) ==
  IF IS_DIR_SEPARATOR(CharAt(s, i)) THEN skip_separators(s, i + 1) ELSE i

\* canonicalize_path, "while (droot < pre && IS_DIR_SEPARATOR (*pre)) pre--".
RECURSIVE pre_back_over_separators(_, _, _)
pre_back_over_separators(d, droot, pre) ==
  IF droot < pre /\ IS_DIR_SEPARATOR(CharAt(d, pre))
  THEN pre_back_over_separators(d, droot, pre - 1) ELSE pre

\* canonicalize_path, "while (droot < pre && ! IS_DIR_SEPARATOR (*pre)) pre--".
RECURSIVE pre_back_over_segment(_, _, _)
pre_back_over_segment(d, droot, pre) ==
  IF droot < pre /\ ~IS_DIR_SEPARATOR(CharAt(d, pre))
  THEN pre_back_over_segment(d, droot, pre - 1) ELSE pre

\* canonicalize_path at a ".." segment with d the bytes written so far: the
\* bytes written after it, and whether the ".." was consumed without being
\* copied (s += 2 and the separators skipped) or copied (s += 2).
canonicalize_dotdot(d, droot) ==
  LET Copy == [d |-> d \o <<46, 46>>, skip |-> FALSE]
      Back(pre) ==
        IF droot <= pre /\ ~IS_DIR_SEPARATOR(CharAt(d, pre))
        THEN LET Seg(q) ==
                   IF q + 3 = Len(d) /\ CharAt(d, q) = 46
                      /\ CharAt(d, q + 1) = 46
                   THEN Copy
                   ELSE [d |-> SubSeq(d, 1, q), skip |-> TRUE]
                 Slashed(q) == Seg(IF droot < q THEN q + 1 ELSE q)
             IN Slashed(pre_back_over_segment(d, droot, pre))
        ELSE Copy
  IN Back(pre_back_over_separators(d, droot, Len(d) - 1))

\* while (*s && ! IS_DIR_SEPARATOR (*s)) *d++ = *s++: the index after the
\* segment at i.
RECURSIVE segment_end(_, _)
segment_end(s, i) ==
  IF CharAt(s, i) # 0 /\ ~IS_DIR_SEPARATOR(CharAt(s, i))
  THEN segment_end(s, i + 1) ELSE i

\* canonicalize_path, the loop "while (*s)" with s at index i and d the
\* bytes written so far: the bytes written when the loop ends.
RECURSIVE canonicalize_segments(_, _, _, _)
canonicalize_segments(s, i, d, droot) ==
  LET After(j, e) ==
        \* the segment is handled: s is at j, e is written
        IF IS_DIR_SEPARATOR(CharAt(s, j))
        THEN canonicalize_segments(s, skip_separators(s, j + 1),
                                   e \o <<Slash>>, droot)
        ELSE canonicalize_segments(s, j, e, droot)
      DotDot(r) ==
        IF r.skip
        THEN After(IF CharAt(s, i + 2) # 0 THEN skip_separators(s, i + 2)
                   ELSE i + 2, r.d)
        ELSE After(i + 2, r.d)
  IN IF CharAt(s, i) = 0 THEN d
     ELSE IF CharAt(s, i) = 46
             /\ (CharAt(s, i + 1) = 0 \/ IS_DIR_SEPARATOR(CharAt(s, i + 1)))
     THEN After(IF CharAt(s, i + 1) # 0 THEN skip_separators(s, i + 1)
                ELSE i + 1, d)
     ELSE IF CharAt(s, i) = 46 /\ CharAt(s, i + 1) = 46
             /\ (CharAt(s, i + 2) = 0 \/ IS_DIR_SEPARATOR(CharAt(s, i + 2)))
     THEN DotDot(canonicalize_dotdot(d, droot))
     ELSE After(segment_end(s, i),
                d \o SubSeq(s, i + 1, segment_end(s, i)))

\* canonicalize_path, "while (droot < d && IS_DIR_SEPARATOR (d[-1])) --d".
RECURSIVE strip_trailing(_, _)
strip_trailing(d, droot) ==
  IF droot < Len(d) /\ IS_DIR_SEPARATOR(d[Len(d)])
  THEN strip_trailing(SubSeq(d, 1, Len(d) - 1), droot) ELSE d

\* canonicalize_path (s, d): the string left at d.
canonicalize_path(s) ==
  LET Finish(d) == IF d = <<>> THEN <<46>> ELSE d
      Walk(d, i) ==
        Finish(strip_trailing(canonicalize_segments(s, i, d, Len(d)), Len(d)))
  IN IF IS_DIR_SEPARATOR(CharAt(s, 0))
     THEN IF IS_DIR_SEPARATOR(CharAt(s, 1))
             /\ ~IS_DIR_SEPARATOR(CharAt(s, 2))
          THEN Walk(<<Slash, Slash>>, skip_separators(s, 2))
          ELSE Walk(<<Slash>>, skip_separators(s, 1))
     ELSE Walk(<<>>, 0)

(***************************************************************************)
(* 4.F line-table registry                                                 *)
(***************************************************************************)

\* debug_sections[DEBUG_LINE].data with its size; <<>> stands for NULL (a
\* section of size 0 is never picked up by edit_dwarf2).
debug_line == scn.debug_line

\* The bytes buf[p .. p+n-1] (memcpy source of n bytes at offset p).
Bytes(buf, p, n) == SubSeq(buf, p + 1, p + n)

\* The index in the registry of the table with old_idx = off, or 0.
FindTable(table, off) ==
  LET S == {i \in 1..Len(table) : table[i].old_idx = off} IN
  IF S = {} THEN 0 ELSE CHOOSE i \in S : \A j \in S : i <= j

\* The size of a line-table header up to and including opcode_base
\* (the sum debugedit.c spells out at 1636-1644, 2264-2275 and 2303-2314).
LineHeaderSize(version) ==
  4 + 2 + (IF version < 5 THEN 0 ELSE 0 + 1 + 1) + 4 + 1
  + (IF version >= 4 THEN 1 ELSE 0) + 1 + 1 + 1 + 1

\* get_line_table (dso, off, &table, cu) on the registry L.  ret is the
\* return value, table the index of *table in lines.table (0 for NULL),
\* lines the registry afterwards, msg what error (0, ...) printed.
get_line_table(L, off, cu, cus_) ==
  LET buf == debug_line
      Fail(m) == [ret |-> FALSE, table |-> 0, lines |-> L, msg |-> <<m>>]
      Fields(unit_length, version, header_length, endcu, endprol, p2, p3) ==
        IF unit_length = UINT_MAX THEN Fail("64-bit DWARF not supported")
        ELSE IF Big(unit_length) \/ endcu > Len(buf)
          THEN Fail(".debug_line CU does not fit into section")
        ELSE IF version \notin {2, 3, 4, 5} THEN Fail("DWARF version unhandled")
        ELSE IF version >= 5 /\ cus_[cu].ptr_size # ByteAt(buf, off + 6)
          THEN Fail(".debug_line address size differs from .debug_info")
        ELSE IF Big(header_length) \/ endprol > endcu
          THEN Fail(".debug_line CU prologue does not fit into CU")
        ELSE IF p3 + 4 + ByteAt(buf, p3 + 3) - 1 >= endcu
          THEN Fail(".debug_line opcode table does not fit into CU")
        ELSE [ret |-> TRUE, table |-> Len(L.table) + 1,
              lines |-> [L EXCEPT !.table = Append(@,
                 [cu |-> cu, old_idx |-> off, new_idx |-> off, size_diff |-> 0,
                  replace_dirs |-> FALSE, replace_files |-> FALSE,
                  unit_length |-> unit_length, version |-> version,
                  header_length |-> header_length,
                  min_instr_len |-> ByteAt(buf, p2),
                  max_op_per_instr |->
                    IF version >= 4 THEN ByteAt(buf, p2 + 1) ELSE 0,
                  default_is_stmt |-> ByteAt(buf, p3),
                  line_base |-> ByteAt(buf, p3 + 1),
                  line_range |-> ByteAt(buf, p3 + 2),
                  opcode_base |-> ByteAt(buf, p3 + 3)])],
              msg |-> <<>>]
      Prologue(unit_length, version, p1) ==
        Fields(unit_length, version, do_read_32(buf, p1),
               off + 4 + unit_length, p1 + 4 + do_read_32(buf, p1),
               p1 + 4, p1 + 4 + 1 + (IF version >= 4 THEN 1 ELSE 0))
      Header(found, version) ==
        IF found # 0
        THEN [ret |-> FALSE, table |-> found, lines |-> L, msg |-> <<>>]
        ELSE IF buf = <<>> THEN Fail("No .line_table section")
        ELSE IF off > Len(buf) THEN Fail("Invalid .line_table offset")
        ELSE Prologue(do_read_32(buf, off), version,
                      off + 6 + (IF version >= 5 THEN 2 ELSE 0))
  IN Header(FindTable(L.table, off), do_read_16(buf, off + 4))

\* A size difference that leaves out the '/' between dest_dir and the
\* remainder.
PathSizeDiff_no_slash(s, file_path) ==
  (Len(dest_dir) + 1 + Len(file_path)) - (Len(s) + 1)

\* new_size - old_size for the dir or file string s of a version 2-4 table
\* (debugedit.c:1904-1909 and 1952-1957), with file_path its remainder.
PathSizeDiff(s, file_path) ==
  (Len(dest_dir) + 1 + (IF Len(file_path) > 0 THEN 1 + Len(file_path) ELSE 0))
  - (Len(s) + 1)

\* skip_dir_prefix (s, base_dir) when base_dir && dest_dir, else NULLP:
\* whether read_dwarf4_line plans a replacement for s.
PlannedPath(s) ==
  IF base_dir # NULLP /\ dest_dir # NULLP THEN skip_dir_prefix(s, base_dir)
  ELSE NULLP

\* read_dwarf4_line, the dir table loop (1893-1916): the table record with
\* size_diff and replace_dirs updated, ptr at the terminating 0, and value
\* one more than the number of dirs.
RECURSIVE read_dwarf4_dirs(_, _, _, _)
read_dwarf4_dirs(buf, ptr, t, value) ==
  LET Dir(s, file_path) ==
        read_dwarf4_dirs(buf, ptr + Len(s) + 1,
          IF file_path # NULLP
          THEN [t EXCEPT !.size_diff = @ + PathSizeDiff(s, file_path),
                         !.replace_dirs = TRUE]
          ELSE t,
          value + 1)
  IN IF ByteAt(buf, ptr) = 0 THEN [t |-> t, ptr |-> ptr, value |-> value]
     ELSE Dir(CStr(buf, ptr), PlannedPath(CStr(buf, ptr)))

\* The offset after the ULEB128 number at offset p.
uleb128_skip(buf, p) == p + uleb128_len(buf, p)

\* read_dwarf4_line, the file table loop (1929-2022).
RECURSIVE read_dwarf4_files(_, _, _, _)
read_dwarf4_files(buf, ptr, t, dirt_cnt) ==
  LET File(file, file_path, p1) ==
        LET Tuple(value, p4) ==
              IF Big(value) \/ value >= dirt_cnt
              THEN [ok |-> FALSE, t |-> t,
                    msg |-> <<"Wrong directory table index">>]
              ELSE read_dwarf4_files(buf, p4,
                     IF file_path # NULLP
                     THEN [t EXCEPT
                             !.size_diff = @ + PathSizeDiff(file, file_path),
                             !.replace_files = TRUE]
                     ELSE t,
                     dirt_cnt)
        IN Tuple(read_uleb128(buf, p1),
                 uleb128_skip(buf, uleb128_skip(buf, uleb128_skip(buf, p1))))
  IN IF ByteAt(buf, ptr) = 0 THEN [ok |-> TRUE, t |-> t, msg |-> <<>>]
     ELSE File(CStr(buf, ptr), PlannedPath(CStr(buf, ptr)),
               ptr + strlen_at(buf, ptr) + 1)

\* dirt of read_dwarf4_line: "." and the entries of the dir table at ptr.
RECURSIVE dirt_from(_, _)
dirt_from(buf, ptr) ==
  IF ByteAt(buf, ptr) = 0 THEN <<>>
  ELSE <<CStr(buf, ptr)>> \o dirt_from(buf, ptr + strlen_at(buf, ptr) + 1)

\* The path s that read_dwarf4_line builds for a file (1961-1991): the
\* file when absolute, else its directory and the file when the directory
\* is absolute, else comp_dir (when there is one), the directory and the
\* file; canonicalized.
SourcePath(comp_dir, dir, file) ==
  canonicalize_path(
    IF Head(file) = Slash THEN file
    ELSE IF Head(dir) = Slash THEN dir \o <<Slash>> \o file
    ELSE (IF comp_dir # NULLP /\ comp_dir # <<>>
          THEN comp_dir \o <<Slash>> ELSE <<>>)
         \o dir \o <<Slash>> \o file)

\* A list_source that writes every path as it is.
list_source_all(s) == s \o <<0>>

\* What read_dwarf4_line writes to the list file for the path s
\* (1992-2015): the part after base_dir, or else after dest_dir, and its
\* NUL; nothing for a path under neither.  Every write succeeds.
list_source(s) ==
  LET Write(p) == IF p # NULLP THEN p \o <<0>> ELSE <<>>
      Dest(p) == IF p = NULLP /\ dest_dir # NULLP
                 THEN Write(skip_dir_prefix(s, dest_dir)) ELSE Write(p)
  IN IF base_dir = NULLP THEN Write(s) ELSE Dest(skip_dir_prefix(s, base_dir))

\* What the file table loop of read_dwarf4_line (1929-2022) appends to the
\* list file, out being what it appended so far: the loop ends at the first
\* wrong directory index.
RECURSIVE read_dwarf4_list(_, _, _, _, _)
read_dwarf4_list(buf, ptr, comp_dir, dirt, out) ==
  LET Tuple(file, value, p4) ==
        IF Big(value) \/ value >= Len(dirt) THEN out
        ELSE read_dwarf4_list(buf, p4, comp_dir, dirt,
               out \o (IF list_file_fd # -1
                       THEN list_source(SourcePath(comp_dir, dirt[value + 1],
                                                   file))
                       ELSE <<>>))
      File(file, p1) ==
        Tuple(file, read_uleb128(buf, p1),
              uleb128_skip(buf, uleb128_skip(buf, uleb128_skip(buf, p1))))
  IN IF ByteAt(buf, ptr) = 0 THEN out
     ELSE File(CStr(buf, ptr), ptr + strlen_at(buf, ptr) + 1)

\* read_dwarf4_line (dso, ptr, comp_dir, table).
read_dwarf4_line(buf, ptr, t) ==
  LET Files(d) == read_dwarf4_files(buf, d.ptr + 1, d.t, d.value)
  IN Files(read_dwarf4_dirs(buf, ptr, t, 1))

\* read_dwarf2_line (dso, off, comp_dir, cu) on the registry L.
read_dwarf2_line(L, off, comp_dir, cu, cus_) ==
  LET Read(g) ==
        LET Table(t) ==
              LET Done(r, t2, list) ==
                    IF t.version < 5 /\ ~r.ok
                    THEN [ret |-> FALSE,
                          lines |-> [g.lines EXCEPT !.table[g.table] = t2],
                          msg |-> r.msg, list |-> list]
                    ELSE [ret |-> t2.replace_dirs \/ t2.replace_files,
                          lines |-> [g.lines EXCEPT
                                       !.table[g.table] = t2,
                                       !.debug_lines_len =
                                         @ + 4 + t2.unit_length + t2.size_diff],
                          msg |-> <<>>, list |-> list]
                  Line(r, ptr) ==
                    Done(r, IF t.version < 5 THEN r.t ELSE t,
                         IF t.version < 5
                         THEN read_dwarf4_list(debug_line,
                                read_dwarf4_dirs(debug_line, ptr, t, 1).ptr + 1,
                                comp_dir,
                                <<(<<46>>)>> \o dirt_from(debug_line, ptr),
                                <<>>)
                         ELSE <<>>)
                  At(ptr) == Line(read_dwarf4_line(debug_line, ptr, t), ptr)
              IN At(off + LineHeaderSize(t.version) + t.opcode_base - 1)
        IN IF g.ret = FALSE \/ g.table = 0
           THEN [ret |-> FALSE, lines |-> g.lines, msg |-> g.msg,
                 list |-> <<>>]
           ELSE Table(g.lines.table[g.table])
  IN Read(get_line_table(L, off, cu, cus_))

\* line_table_cmp orders tables by old_idx; qsort with it.
line_table_cmp(ta, tb) ==
  IF ta.old_idx < tb.old_idx THEN -1 ELSE IF ta.old_idx > tb.old_idx THEN 1 ELSE 0

\* The tables left in the order in which they were registered.
SortTables_unsorted(table) == table

RECURSIVE SortTables(_)
SortTables(table) ==
  IF table = <<>> THEN <<>>
  ELSE LET m == CHOOSE i \in 1..Len(table) :
                  \A j \in 1..Len(table) : line_table_cmp(table[i], table[j]) <= 0
           rest == [k \in 1..(Len(table) - 1) |->
                      IF k < m THEN table[k] ELSE table[k + 1]]
       IN <<table[m]>> \o SortTables(rest)

\* The bytes emitted for the path string s when replacing (1656-1681 for
\* dirs, 1693-1718 for files): the replacement or the string, NUL-terminated.
EmitPath(s, replace) ==
  LET file_path == IF replace THEN skip_dir_prefix(s, base_dir) ELSE NULLP IN
  IF file_path # NULLP THEN ReplacementPath(file_path) \o <<0>>
  ELSE s \o <<0>>

\* edit_dwarf2_line, the directory table loop from optr on: the bytes
\* written so far are out; gives all bytes written and optr at the
\* terminating 0.
RECURSIVE emit_dirs(_, _, _, _)
emit_dirs(old, optr, t, out) ==
  LET Dir(dir) ==
        emit_dirs(old, optr + Len(dir) + 1, t,
                  out \o EmitPath(dir, t.replace_dirs))
  IN IF ByteAt(old, optr) = 0 THEN [out |-> out, optr |-> optr]
     ELSE Dir(CStr(old, optr))

\* edit_dwarf2_line, the file table loop.
RECURSIVE emit_files(_, _, _, _)
emit_files(old, optr, t, out) ==
  LET File(file, p1) ==
        LET Tuple(p2) ==
              LET Time(p3) ==
                    emit_files(old, uleb128_skip(old, p3), t,
                      out \o EmitPath(file, t.replace_files)
                      \o write_uleb128(read_uleb128(old, p1))
                      \o write_uleb128(read_uleb128(old, p2))
                      \o write_uleb128(read_uleb128(old, p3)))
              IN Time(uleb128_skip(old, p2))
        IN Tuple(uleb128_skip(old, p1))
  IN IF ByteAt(old, optr) = 0 THEN [out |-> out, optr |-> optr]
     ELSE File(CStr(old, optr), optr + strlen_at(old, optr) + 1)

\* edit_dwarf2_line, the body of the loop for one table: the bytes written
\* for table t from the old payload.
emit_table(old, t) ==
  LET Rest(out, o4) ==
        out \o Bytes(old, o4, t.unit_length + 4 - (o4 - t.old_idx))
      Files(d) ==
        LET Filed(f) == Rest(f.out \o <<0>>, f.optr + 1)
        IN IF t.replace_files
           THEN Filed(emit_files(old, d.optr + 1, t, d.out \o <<0>>))
           ELSE Rest(d.out \o <<0>>, d.optr + 1)
      Dirs(o1) ==
        Files(emit_dirs(old, o1 + t.opcode_base - 1, t,
                do_write_32(t.unit_length + t.size_diff)
                \o do_write_16(t.version)
                \o do_write_32(t.header_length + t.size_diff)
                \o <<t.min_instr_len>>
                \o (IF t.version >= 4 THEN <<t.max_op_per_instr>> ELSE <<>>)
                \o <<t.default_is_stmt, t.line_base, t.line_range,
                     t.opcode_base>>
                \o Bytes(old, o1, t.opcode_base - 1)))
  IN
  IF ~t.replace_dirs /\ ~t.replace_files
  THEN Bytes(old, t.old_idx, t.unit_length + 4)
  ELSE Dirs(t.old_idx + 4 + 2 + 4 + 1 + (IF t.version >= 4 THEN 1 ELSE 0)
            + 1 + 1 + 1 + 1)

\* edit_dwarf2_line, the loop over the sorted tables from index ldx on with
\* the bytes written so far in out: the tables with new_idx set, and all
\* bytes written.
RECURSIVE emit_tables(_, _, _, _)
emit_tables(old, table, ldx, out) ==
  IF ldx > Len(table) THEN [table |-> table, out |-> out]
  ELSE emit_tables(old, [table EXCEPT ![ldx].new_idx = Len(out)], ldx + 1,
                   out \o emit_table(old, table[ldx]))

(***************************************************************************)
(* 4.E abbreviations and forms                                             *)
(***************************************************************************)

\* The DW_FORM_* codes named by read_abbrev and skip_form.
DW_FORM ==
  [addr |-> 1, block2 |-> 3, block4 |-> 4, data2 |-> 5, data4 |-> 6,
   data8 |-> 7, string |-> 8, block |-> 9, block1 |-> 10, data1 |-> 11,
   flag |-> 12, sdata |-> 13, strp |-> 14, udata |-> 15, ref_addr |-> 16,
   ref1 |-> 17, ref2 |-> 18, ref4 |-> 19, ref8 |-> 20, ref_udata |-> 21,
   indirect |-> 22, sec_offset |-> 23, exprloc |-> 24, flag_present |-> 25,
   strx |-> 26, addrx |-> 27, data16 |-> 30, line_strp |-> 31,
   ref_sig8 |-> 32, implicit_const |-> 33, loclistx |-> 34, rnglistx |-> 35,
   strx1 |-> 37, strx2 |-> 38, strx3 |-> 39, strx4 |-> 40,
   addrx1 |-> 41, addrx2 |-> 42, addrx3 |-> 43, addrx4 |-> 44]

\* The DW_AT_* codes edit_info and edit_attributes look for.
DW_AT ==
  [name |-> 3, stmt_list |-> 16, comp_dir |-> 27, producer |-> 37,
   str_offsets_base |-> 114, macros |-> 121]

\* The DW_TAG_* codes edit_attributes looks for (and one it does not).
DW_TAG == [compile_unit |-> 17, subprogram |-> 46, partial_unit |-> 60]

\* The DW_UT_* unit types edit_info accepts.
DW_UT == [compile |-> 1, type |-> 2, partial |-> 3]

\* The forms read_abbrev rejects with "Unknown DWARF DW_FORM_0x%x".
UnknownForm(F, form) ==
  form = 2
  \/ (form > F.flag_present
      /\ form \notin {F.ref_sig8, F.data16, F.line_strp, F.implicit_const,
                      F.addrx, F.loclistx, F.rnglistx, F.addrx1, F.addrx2,
                      F.addrx3, F.addrx4, F.strx, F.strx1, F.strx2, F.strx3,
                      F.strx4})

UnknownAbbrevForm(form) == UnknownForm(DW_FORM, form)

\* read_abbrev, the inner loop over the (attr, form) pairs of one
\* declaration, with the pairs read so far in attrs: ptr ends after the
\* terminating attr 0.
RECURSIVE read_abbrev_attrs(_, _, _)
read_abbrev_attrs(buf, ptr, attrs) ==
  LET Pair(attr, p1) ==
        LET Form(form, p2) ==
              IF UnknownAbbrevForm(form)
              THEN [ok |-> FALSE, attr |-> <<>>, ptr |-> p2,
                    msg |-> <<"Unknown DWARF DW_FORM">>]
              ELSE read_abbrev_attrs(buf,
                     IF form = DW_FORM.implicit_const
                     THEN uleb128_skip(buf, p2) ELSE p2,
                     Append(attrs, [attr |-> attr, form |-> form]))
        IN IF attr = 0
           THEN [ok |-> TRUE, attr |-> attrs, ptr |-> p1, msg |-> <<>>]
           ELSE Form(read_uleb128(buf, p1), uleb128_skip(buf, p1))
  IN Pair(read_uleb128(buf, ptr), uleb128_skip(buf, ptr))

\* read_abbrev, the outer loop, with h the declarations read so far:
\* the hash table (a sequence of abbrev_tag) or the failure.
RECURSIVE read_abbrev_tags(_, _, _)
read_abbrev_tags(buf, ptr, h) ==
  LET Decl(entry, p1) ==
        LET Attrs(tag, a) ==
              IF ~a.ok THEN [ok |-> FALSE, h |-> <<>>, msg |-> a.msg]
              ELSE IF read_uleb128(buf, a.ptr) # 0
              THEN [ok |-> FALSE, h |-> <<>>,
                    msg |-> <<"DWARF abbreviation does not end with 2 zeros">>]
              ELSE read_abbrev_tags(buf, uleb128_skip(buf, a.ptr),
                     Append(h, [entry |-> entry, tag |-> tag,
                                nattr |-> Len(a.attr), attr |-> a.attr]))
        IN IF entry = 0 THEN [ok |-> TRUE, h |-> h, msg |-> <<>>]
           ELSE IF \E k \in 1..Len(h) : h[k].entry = entry
           THEN [ok |-> FALSE, h |-> <<>>,
                 msg |-> <<"Duplicate DWARF abbreviation">>]
           ELSE Attrs(read_uleb128(buf, p1),
                      read_abbrev_attrs(buf, uleb128_skip(buf, p1) + 1, <<>>))
  IN Decl(read_uleb128(buf, ptr), uleb128_skip(buf, ptr))

\* read_abbrev (dso, ptr): ok is FALSE where the C function returns NULL.
read_abbrev(buf, ptr) == read_abbrev_tags(buf, ptr, <<>>)

\* htab_find_with_hash (abbrev, &tag, tag.entry): the index in h, or 0.
htab_find(h, entry) ==
  IF \E k \in 1..Len(h) : h[k].entry = entry
  THEN CHOOSE k \in 1..Len(h) : h[k].entry = entry
  ELSE 0

\* The forms skip_form has a case for.
SkipFormKnows(form) ==
  \E n \in DOMAIN DW_FORM : DW_FORM[n] = form

\* skip_form: the cursor advance for a form whose value starts at ptr (F is
\* DW_FORM).
FormWidthOf(F, form, buf, ptr, cu) ==
  CASE form = F.ref_addr -> IF cu.cu_version = 2 THEN cu.ptr_size ELSE 4
    [] form \in {F.flag_present, F.implicit_const} -> 0
    [] form = F.addr -> cu.ptr_size
    [] form \in {F.ref1, F.flag, F.data1, F.strx1, F.addrx1} -> 1
    [] form \in {F.ref2, F.data2, F.strx2, F.addrx2} -> 2
    [] form \in {F.strx3, F.addrx3} -> 3
    [] form \in {F.ref4, F.data4, F.strx4, F.addrx4, F.sec_offset} -> 4
    [] form \in {F.ref8, F.data8, F.ref_sig8} -> 8
    [] form = F.data16 -> 16
    [] form \in {F.sdata, F.ref_udata, F.udata, F.strx, F.loclistx,
                 F.rnglistx, F.addrx} -> uleb128_len(buf, ptr)
    [] form \in {F.strp, F.line_strp} -> 4
    [] form = F.string -> strlen_at(buf, ptr) + 1
    [] form = F.block1 -> 1 + ByteAt(buf, ptr)
    [] form = F.block2 -> 2 + do_read_16(buf, ptr)
    [] form = F.block4 -> 4 + do_read_32(buf, ptr)
    [] form \in {F.block, F.exprloc} ->
         uleb128_len(buf, ptr) + read_uleb128(buf, ptr)
    [] OTHER -> 0

\* A skip_form that takes DW_FORM_indirect for a form without a value.
skip_form_flat(form, buf, ptr, cu) ==
  [res |-> IF SkipFormKnows(form) THEN "FORM_OK" ELSE "FORM_ERROR",
   form |-> form, ptr |-> ptr + FormWidthOf(DW_FORM, form, buf, ptr, cu),
   msg |-> <<>>]

\* skip_form (dso, &form, &ptr, cu): the result, *formp and *ptrp after.
skip_form(form, buf, ptr, cu) ==
  LET Skip(F) ==
        IF ~SkipFormKnows(form)
        THEN [res |-> "FORM_ERROR", form |-> form, ptr |-> ptr,
              msg |-> <<"Unknown DWARF DW_FORM">>]
        ELSE IF form = F.indirect
        THEN [res |-> "FORM_INDIRECT", form |-> read_uleb128(buf, ptr),
              ptr |-> uleb128_skip(buf, ptr), msg |-> <<>>]
        ELSE [res |-> "FORM_OK",
              form |-> IF form \in {F.block2, F.block4, F.block, F.exprloc}
                       THEN F.block1 ELSE form,
              ptr |-> ptr + FormWidthOf(F, form, buf, ptr, cu), msg |-> <<>>]
  IN Skip(DW_FORM)

(***************************************************************************)
(* 4.D string pools                                                        *)
(*                                                                         *)
(* A struct strings is the sequence of its stridxentry records in the      *)
(* order they were created: idx is the offset in the old section, str the  *)
(* string handed to strtab_add_len for it (without its terminator).        *)
(***************************************************************************)

\* setup_strings: the empty pool.  dummy says whether
\* create_dummy_debugedit_stridxentry has added "<debugedit>" to str_tab.
setup_strings == [entries |-> <<>>, dummy |-> FALSE]

\* debugedit_stridxentry once created: idx (uint32_t) -1, "<debugedit>".  It
\* is not in the search tree.
debugedit_stridxentry ==
  [idx |-> UINT_MAX,
   str |-> <<60, 100, 101, 98, 117, 103, 101, 100, 105, 116, 62>>]

\* tfind on strent_root: the index of the entry for old_idx, or 0.
tfind(strings, old_idx) ==
  IF \E k \in 1..Len(strings.entries) : strings.entries[k].idx = old_idx
  THEN CHOOSE k \in 1..Len(strings.entries) : strings.entries[k].idx = old_idx
  ELSE 0

\* string_find_new_entry returns an entry to fill in (TRUE) or NULL (FALSE,
\* the idx is already known).
string_find_new_entry(strings, old_idx) == tfind(strings, old_idx) = 0

\* A record_file_string_entry_idx that never replaces the base directory.
record_file_string_entry_idx_keep(strings, data, old_idx) ==
  IF tfind(strings, old_idx) # 0 \/ Big(old_idx) \/ old_idx >= Len(data)
  THEN [ret |-> FALSE, strings |-> strings, fatal |-> <<>>]
  ELSE [ret |-> FALSE,
        strings |-> [strings EXCEPT !.entries =
                       Append(@, [idx |-> old_idx, str |-> CStr(data, old_idx)])],
        fatal |-> <<>>]

\* record_file_string_entry_idx on the pool strings of the section payload
\* data: ret is the return value, strings the pool afterwards, fatal what
\* error (1, ...) printed before exiting (<<>> when it did not).
record_file_string_entry_idx(strings, data, old_idx) ==
  LET Add(str) == [strings EXCEPT !.entries = Append(@, [idx |-> old_idx,
                                                          str |-> str])]
      Record(old_str, file) ==
        IF file = NULLP
        THEN [ret |-> FALSE, strings |-> Add(old_str), fatal |-> <<>>]
        ELSE [ret |-> TRUE, strings |-> Add(ReplacementPath(file)),
              fatal |-> <<>>]
  IN
  IF ~string_find_new_entry(strings, old_idx)
  THEN [ret |-> FALSE, strings |-> strings, fatal |-> <<>>]
  ELSE IF Big(old_idx) \/ old_idx >= Len(data)
  THEN [ret |-> FALSE, strings |-> strings,
        fatal |-> <<"Bad string pointer index">>]
  ELSE Record(CStr(data, old_idx),
              skip_dir_prefix(CStr(data, old_idx), base_dir))

\* record_existing_string_entry_idx.
record_existing_string_entry_idx(strings, data, old_idx) ==
  IF ~string_find_new_entry(strings, old_idx)
  THEN [strings |-> strings, fatal |-> <<>>]
  ELSE IF Big(old_idx) \/ old_idx >= Len(data)
  THEN [strings |-> strings, fatal |-> <<"Bad string pointer index">>]
  ELSE [strings |-> [strings EXCEPT !.entries =
                       Append(@, [idx |-> old_idx, str |-> CStr(data, old_idx)])],
        fatal |-> <<>>]

\* The strings of the new table: those added, once each, in the order of
\* their first strtab_add_len.
RECURSIVE StrtabStrings(_)
StrtabStrings(entries) ==
  IF entries = <<>> THEN <<>>
  ELSE LET front == StrtabStrings(SubSeq(entries, 1, Len(entries) - 1))
           last == entries[Len(entries)].str
       IN IF \E k \in 1..Len(front) : front[k] = last THEN front
          ELSE Append(front, last)

\* strtab_finalize: the contiguous buffer holding each string of the table
\* once, NUL-terminated.
RECURSIVE strtab_finalize(_)
strtab_finalize(strs) ==
  IF strs = <<>> THEN <<>>
  ELSE Head(strs) \o <<0>> \o strtab_finalize(Tail(strs))

\* strent_offset: the offset strtab_finalize gave the string str.
RECURSIVE strent_offset(_, _)
strent_offset(strs, str) ==
  IF Head(strs) = str THEN 0
  ELSE Len(Head(strs)) + 1 + strent_offset(Tail(strs), str)

\* strings->str_tab: the strings added for the entries and, last, the
\* dummy string when it was created.
str_tab(strings) ==
  StrtabStrings(IF strings.dummy
                THEN Append(strings.entries, debugedit_stridxentry)
                ELSE strings.entries)

\* string_find_entry (strings, old_idx, false) followed by strent_offset:
\* the new offset for the old offset old_idx, which must be in the pool.
NewStrOffset(strings, old_idx) ==
  strent_offset(str_tab(strings),
                strings.entries[tfind(strings, old_idx)].str)


(***************************************************************************)
(* The program: main, edit_dwarf2, edit_info, edit_attributes              *)
(***************************************************************************)

cfg == <<base_dir, dest_dir, opt, list_file_fd, ei_data, phnum, heap>>

\* debug_sections[i].data for the other sections edit_dwarf2 picks up.
debug_info == scn.debug_info

debug_abbrev == scn.debug_abbrev

debug_str == scn.debug_str

debug_line_str == scn.debug_line_str

debug_str_offsets == scn.debug_str_offsets

debug_macro == scn.debug_macro

\* do_read_32_relocated (ptr, sec) for a section without relocation
\* records (sec->relbuf == NULL): the value in place.
do_read_32_relocated(buf, p) == do_read_32(buf, p)

\* do_write_32_relocated (ptr, val) for such a section.
do_write_32_relocated(buf, p, val) == Splice(buf, p, do_write_32(val))

\* The largest and the smallest int32_t; as uint32_t bit patterns they are
\* 0x7fffffff and 0x80000000.
INT32_MAX == 2147483647
INT32_MIN == -INT32_MAX - 1

\* a + b and a - b of uint32_t (modulo 2^32), on values held as int32_t bit
\* patterns; no intermediate result leaves the range of int32_t.
Add32(a, b) ==
  IF a >= 0 /\ b >= 0 /\ a > INT32_MAX - b
  THEN ((a + INT32_MIN) + b) + INT32_MIN
  ELSE IF a < 0 /\ b < 0 /\ a < INT32_MIN - b
  THEN ((((a + INT32_MAX) + 1) + b) + INT32_MAX) + 1
  ELSE a + b

Sub32(a, b) == IF b = INT32_MIN THEN Add32(a, INT32_MIN) ELSE Add32(a, -b)

\* find_rel_for_ptr (xptr, sec): the binary search in sec->relbuf between
\* l and r; the index in relbuf of the record found (1 for relbuf[0]), or
\* that of relend, Len(relbuf) + 1.
RECURSIVE find_rel_for_ptr(_, _, _, _)
find_rel_for_ptr(relbuf, xptr, l, r) ==
  LET Probe(m) ==
        IF relbuf[m + 1].ptr < xptr THEN find_rel_for_ptr(relbuf, xptr, m + 1, r)
        ELSE IF relbuf[m + 1].ptr > xptr THEN find_rel_for_ptr(relbuf, xptr, l, m)
        ELSE m + 1
  IN IF l < r THEN Probe((l + r) \div 2) ELSE Len(relbuf) + 1

\* do_read_32_relocated (xptr, xsec) on a section xsec with its relbuf
\* (<<>> for NULL: setup_relbuf leaves no empty array), reltype and
\* rel_updated:
\* dret, and last_relptr (0 for NULL), last_relend and last_reltype as the
\* macro leaves them.
read_32_relocated(xsec, xptr) ==
  LET Found(relptr) ==
        [dret |-> IF relptr <= Len(xsec.relbuf)
                     /\ xsec.relbuf[relptr].ptr = xptr
                  THEN IF xsec.reltype = "SHT_REL"
                       THEN Add32(do_read_32(xsec.data, xptr),
                                  xsec.relbuf[relptr].addend)
                       ELSE xsec.relbuf[relptr].addend
                  ELSE do_read_32(xsec.data, xptr),
         last_relptr |-> relptr, last_relend |-> Len(xsec.relbuf) + 1,
         last_reltype |-> xsec.reltype]
  IN IF xsec.relbuf # <<>>
     THEN Found(find_rel_for_ptr(xsec.relbuf, xptr, 0, Len(xsec.relbuf)))
     ELSE [dret |-> do_read_32(xsec.data, xptr), last_relptr |-> 0,
           last_relend |-> 0, last_reltype |-> xsec.reltype]

\* A relocated write that stores val in place whatever the record says.
write_32_relocated_plain(last_sec, last, ptr, val) ==
  [last_sec EXCEPT !.data = Splice(@, ptr, do_write_32(val))]

\* do_write_32_relocated (ptr, val) right after the read that left last
\* and made xsec the last_sec: the section afterwards.
write_32_relocated(last_sec, last, ptr, val) ==
  IF last.last_relptr # 0 /\ last.last_relptr < last.last_relend
     /\ last_sec.relbuf[last.last_relptr].ptr = ptr
  THEN IF last.last_reltype = "SHT_REL"
       THEN [last_sec EXCEPT
               !.data = Splice(@, ptr,
                          do_write_32(
                            Sub32(val, last_sec.relbuf[last.last_relptr].addend)))]
       ELSE [last_sec EXCEPT !.relbuf[last.last_relptr].addend = val,
                             !.rel_updated = TRUE]
  ELSE [last_sec EXCEPT !.data = Splice(@, ptr, do_write_32(val))]

\* A 64-bit value (GElf_Sxword r_addend, GElf_Addr st_value) is the pair
\* <<hi, lo>> of its 32-bit halves, held as int32_t bit patterns.  ULess is
\* < on uint32_t; Add64 and Sub64 are + and - modulo 2^64.
ULess(a, b) == IF (a < 0) = (b < 0) THEN a < b ELSE b < 0

Add64(a, b) ==
  <<Add32(Add32(a[1], b[1]),
          IF ULess(Add32(a[2], b[2]), a[2]) THEN 1 ELSE 0),
    Add32(a[2], b[2])>>

Sub64(a, b) ==
  <<Sub32(Sub32(a[1], b[1]), IF ULess(a[2], b[2]) THEN 1 ELSE 0),
    Sub32(a[2], b[2])>>

\* R_X86_64_32, the relocation type setup_relbuf takes on EM_X86_64.
R_X86_64_32 == 10

\* rel_cmp orders the records by ptr; qsort with it (the records of a
\* section have different ptrs).
rel_cmp(rela, relb) ==
  IF rela.ptr < relb.ptr THEN -1 ELSE IF rela.ptr > relb.ptr THEN 1 ELSE 0

RECURSIVE SortRelbuf(_)
SortRelbuf(relbuf) ==
  IF relbuf = <<>> THEN <<>>
  ELSE LET First(m) ==
             <<relbuf[m]>>
             \o SortRelbuf([k \in 1..(Len(relbuf) - 1) |->
                              IF k < m THEN relbuf[k] ELSE relbuf[k + 1]])
       IN First(CHOOSE i \in 1..Len(relbuf) :
                  \A j \in 1..Len(relbuf) : rel_cmp(relbuf[i], relbuf[j]) <= 0)

\* setup_relbuf, the loop over the entries of the relocation section from
\* ndx on (0-based): rels are the entries, each with r_offset, r_type,
\* r_addend and its symbol's st_value and whether st_shndx is one of the
\* debug sections looked at; sh_addr is 0.  relbuf are the records so far;
\* fatal is what error (1, ...) printed.
RECURSIVE setup_relbuf_entries(_, _, _, _)
setup_relbuf_entries(rels, sh_type, ndx, relbuf) ==
  LET Entry(rel) ==
        LET Record(r_addend) ==
              IF sh_type = "SHT_REL" /\ rel.st_value = <<0, 0>>
              THEN setup_relbuf_entries(rels, sh_type, ndx + 1, relbuf)
              ELSE IF ~rel.st_shndx_debug
              THEN setup_relbuf_entries(rels, sh_type, ndx + 1, relbuf)
              ELSE IF rel.r_type # R_X86_64_32
              THEN [relbuf |-> relbuf, fatal |-> <<"Unhandled relocation">>]
              ELSE setup_relbuf_entries(rels, sh_type, ndx + 1,
                     Append(relbuf,
                            [ptr |-> rel.r_offset,
                             addend |-> Add64(r_addend, rel.st_value)[2],
                             ndx |-> ndx]))
        IN Record(IF sh_type = "SHT_REL" THEN <<0, 0>> ELSE rel.r_addend)
  IN IF ndx >= Len(rels) THEN [relbuf |-> relbuf, fatal |-> <<>>]
     ELSE Entry(rels[ndx + 1])

\* setup_relbuf (dso, sec) for a section sec that has a relocation section
\* and no relbuf yet: sec with its relbuf (<<>> for NULL), sorted by ptr,
\* and its reltype.
setup_relbuf(sec, rels, sh_type) ==
  LET Set(r) ==
        [sec |-> [sec EXCEPT !.relbuf = SortRelbuf(r.relbuf),
                             !.reltype = sh_type],
         fatal |-> r.fatal]
  IN Set(setup_relbuf_entries(rels, sh_type, 0, <<>>))

\* An update_rela_data that writes the addend of a record back as it is.
update_rela_data_raw(sec, rels) ==
  IF ~sec.rel_updated THEN rels
  ELSE [k \in 1..Len(rels) |->
          IF \E i \in 1..Len(sec.relbuf) : sec.relbuf[i].ndx = k - 1
          THEN [rels[k] EXCEPT !.r_addend =
                  <<0, sec.relbuf[CHOOSE i \in 1..Len(sec.relbuf) :
                                    sec.relbuf[i].ndx = k - 1].addend>>]
          ELSE rels[k]]

\* update_rela_data (dso, sec): the entries of the relocation section
\* afterwards.  Nothing happens unless rel_updated; else the entry ndx of
\* every record gets r_addend = relptr->addend - sym.st_value, the addend
\* being a uint32_t and the difference one of 64 bits.
update_rela_data(sec, rels) ==
  IF ~sec.rel_updated THEN rels
  ELSE [k \in 1..Len(rels) |->
          IF \E i \in 1..Len(sec.relbuf) : sec.relbuf[i].ndx = k - 1
          THEN [rels[k] EXCEPT !.r_addend =
                  Sub64(<<0, sec.relbuf[CHOOSE i \in 1..Len(sec.relbuf) :
                                          sec.relbuf[i].ndx = k - 1].addend>>,
                        rels[k].st_value)]
          ELSE rels[k]]

\* update_str_offsets, the loop over the entries of one index table from
\* ptr to endidxp: each is looked up (accept_missing) and rewritten, with a
\* warning when the dummy entry stands in.  The tables of the objects hold
\* whole entries.
RECURSIVE update_str_offsets_entries(_, _, _, _, _)
update_str_offsets_entries(sec, strings, ptr, endidxp, msg) ==
  LET Entry(found, idx) ==
        update_str_offsets_entries(
          do_write_32_relocated(sec, ptr,
            IF found THEN NewStrOffset(strings, idx)
            ELSE strent_offset(str_tab(strings), debugedit_stridxentry.str)),
          strings, ptr + 4, endidxp,
          IF found THEN msg
          ELSE Append(msg, "Warning, .debug_str_offsets entry unused"))
  IN IF ptr >= endidxp THEN [sec |-> sec, ptr |-> ptr, msg |-> msg]
     ELSE Entry(tfind(strings, do_read_32_relocated(sec, ptr)) # 0,
                do_read_32_relocated(sec, ptr))

\* An update_str_offsets that rewrites nothing.
update_str_offsets_none(sec, strings, ptr, msg) == [sec |-> sec, msg |-> msg]

\* update_str_offsets from ptr on, with sec the .debug_str_offsets payload
\* and msg the warnings printed so far: the loop over the index tables,
\* which ends at the first bad header.
RECURSIVE update_str_offsets(_, _, _, _)
update_str_offsets(sec, strings, ptr, msg) ==
  LET Next(r) == update_str_offsets(r.sec, strings, r.ptr, r.msg)
      Table(unit_length) ==
        IF Big(unit_length) \/ Len(sec) - (ptr + 4) < unit_length
           \/ do_read_16(sec, ptr + 4) # 5 \/ do_read_16(sec, ptr + 6) # 0
        THEN [sec |-> sec, msg |-> msg]
        ELSE Next(update_str_offsets_entries(sec, strings, ptr + 8,
                                             ptr + 4 + unit_length, msg))
  IN IF ptr >= Len(sec) \/ Len(sec) - ptr < 12
     THEN [sec |-> sec, msg |-> msg]
     ELSE Table(do_read_32(sec, ptr))

\* The walker's locals before any CU is entered.
NoWalk ==
  [ptr |-> 0, endcu |-> 0, abbrev |-> <<>>, first |-> FALSE, t |-> 0,
   i |-> 0, form |-> 0, comp_dir |-> NULLP, list_offs |-> 0,
   found_list_offs |-> 0]

NT_GNU_BUILD_ID == 3

\* The note name "GNU" with its terminator.
GNU == <<71, 78, 85, 0>>

\* NOTE_ALIGN4 as gelf_getnote applies it to namesz and descsz.
Align4(n) == ((n + 3) \div 4) * 4

\* The loop of main over gelf_getnote from offset off on: the last GNU
\* build-ID note of the section, or cur.
RECURSIVE find_build_id(_, _, _)
find_build_id(buf, off, cur) ==
  LET namesz == do_read_32(buf, off)
      descsz == do_read_32(buf, off + 4)
      type == do_read_32(buf, off + 8)
      name_off == off + 12
      desc_off == name_off + Align4(namesz)
      next == desc_off + Align4(descsz)
  IN
  IF off + 12 > Len(buf) THEN cur
  ELSE IF Big(namesz) \/ Big(descsz) \/ next > Len(buf) THEN cur
  ELSE find_build_id(buf, next,
         IF type = NT_GNU_BUILD_ID /\ namesz = Len(GNU)
            /\ Bytes(buf, name_off, Len(GNU)) = GNU
         THEN [found |-> TRUE, offset |-> desc_off, size |-> descsz]
         ELSE cur)

\* main, the loop over the sections up to the call of edit_dwarf2: the
\* allocated SHT_NOTE section is searched for the build-ID note.
main_sections ==
  /\ pc = "main"
  /\ build_id' = IF opt.do_build_id
                 THEN find_build_id(scn.note, 0, build_id) ELSE build_id
  /\ pc' = IF (base_dir # NULLP \/ dest_dir # NULLP \/ list_file_fd # -1)
              /\ debug_info # <<>>
           THEN "edit_dwarf2" ELSE "tail"
  /\ UNCHANGED <<cfg, call, list_file, disk, run, out1, scn, shdr, elf, need, lines, dso_strings,
                 cus, phase, walk, edit_dwarf2_ret, diag, stdout, exit_code,
                 written>>

\* edit_dwarf2 up to the phase loop: the sections are picked up and the
\* byte order is wired.
edit_dwarf2_begin ==
  /\ pc = "edit_dwarf2"
  /\ IF ei_data \notin {"ELFDATA2LSB", "ELFDATA2MSB"}
     THEN /\ diag' = Append(diag, "Wrong ELF data enconding")
          /\ edit_dwarf2_ret' = 1
          /\ pc' = "tail"
     ELSE /\ pc' = "phase"
          /\ UNCHANGED <<diag, edit_dwarf2_ret>>
  /\ phase' = 0
  /\ UNCHANGED <<cfg, call, list_file, disk, run, out1, scn, shdr, elf, need, lines, dso_strings,
                 cus, walk, build_id, stdout, exit_code, written>>

\* Whether phase 1 has anything to update.
AnyNeed ==
  need.need_strp_update \/ need.need_line_strp_update
  \/ need.need_string_replacement \/ need.need_stmt_update

\* edit_dwarf2, the head of the phase loop.
edit_dwarf2_phase ==
  /\ pc = "phase"
  /\ pc' = IF phase = 2 \/ (phase = 1 /\ ~AnyNeed) THEN "post" ELSE "cu"
  /\ walk' = NoWalk
  /\ UNCHANGED <<cfg, call, list_file, disk, run, out1, scn, shdr, elf, need, lines, dso_strings,
                 cus, phase, edit_dwarf2_ret, build_id, diag, stdout,
                 exit_code, written>>

\* edit_info, the CU header at cu_start of the section payload sec: msg is
\* what error (0, ...) printed before return 1 (<<>> when the header was
\* accepted), cu the struct CU as far as it was filled in, ptr the cursor
\* after the header, endcu the end of the unit, abbrev its abbreviations.
edit_info_header(sec, cu_start) ==
  LET endsec == Len(sec)
      \* malloc (sizeof (struct CU)) leaves every field uninitialized.
      cu0 == [cu_version |-> heap, ptr_size |-> heap,
              macros_offs |-> heap, str_offsets_base |-> heap]
      Header(value, cu_version, unit_type) ==
        LET R(m, c, h) ==
              [msg |-> m, cu |-> c,
               ptr |-> (IF cu_version >= 5 THEN cu_start + 12
                        ELSE cu_start + 11)
                       + (IF unit_type = DW_UT.type THEN 12 ELSE 0),
               endcu |-> cu_start + 4 + value, abbrev |-> h]
            Abbrev(abbrev_off, cu_ptr_size, cu1) ==
              LET Read(a, cu2) ==
                    IF ~a.ok THEN R(a.msg, cu2, <<>>) ELSE R(<<>>, cu2, a.h)
              IN
              IF Big(abbrev_off) \/ abbrev_off >= Len(debug_abbrev)
                THEN R(IF debug_abbrev = <<>>
                       THEN <<".debug_abbrev not present">>
                       ELSE <<"DWARF CU abbrev offset too large">>, cu1, <<>>)
              ELSE IF cu_ptr_size \notin {4, 8}
                THEN R(<<"Invalid DWARF pointer size">>, cu1, <<>>)
              ELSE Read(read_abbrev(debug_abbrev, abbrev_off),
                        [cu1 EXCEPT !.ptr_size = cu_ptr_size])
        IN
        IF cu_start + 4 + 2 + 1 + 1 > endsec
          THEN R(<<"CU header too small">>, cu0, <<>>)
        ELSE IF value = UINT_MAX
          THEN R(<<"64-bit DWARF not supported">>, cu0, <<>>)
        ELSE IF Big(value) \/ cu_start + 4 + value > endsec
          THEN R(<<"too small">>, cu0, <<>>)
        ELSE IF cu_version \notin {2, 3, 4, 5}
          THEN R(<<"DWARF version unhandled">>, cu0, <<>>)
        ELSE IF cu_version >= 5
                /\ unit_type \notin {DW_UT.compile, DW_UT.partial, DW_UT.type}
          THEN R(<<"Unit type unhandled">>,
                 [cu0 EXCEPT !.cu_version = cu_version], <<>>)
        ELSE IF cu_start + 23
                + (IF cu_version < 5 THEN 0
                   ELSE IF unit_type # DW_UT.type THEN 1 ELSE 1 + 8 + 4)
                > endsec
          THEN R(<<"CU header too small">>,
                 [cu0 EXCEPT !.cu_version = cu_version], <<>>)
        ELSE Abbrev(do_read_32_relocated(sec,
                      IF cu_version >= 5 THEN cu_start + 8 ELSE cu_start + 6),
                    IF cu_version >= 5 THEN ByteAt(sec, cu_start + 7)
                    ELSE ByteAt(sec, cu_start + 10),
                    [cu0 EXCEPT !.cu_version = cu_version])
      Version(value, cu_version) ==
        Header(value, cu_version,
               IF cu_version >= 5 THEN ByteAt(sec, cu_start + 6)
               ELSE DW_UT.compile)
  IN Version(do_read_32(sec, cu_start), do_read_16(sec, cu_start + 4))

\* edit_info, the head of the loop over the units of .debug_info: either
\* the section is done (edit_info returns 0; there is no .debug_types), or
\* the next CU header is read and checked.
edit_info_cu ==
  /\ pc = "cu"
  /\ LET Unit_(r) ==
           /\ cus' = Append(cus, r.cu)
           /\ diag' = diag \o r.msg
           /\ IF r.msg # <<>>
              THEN /\ edit_dwarf2_ret' = 1
                   /\ pc' = "tail"
                   /\ UNCHANGED walk
              ELSE /\ walk' = [NoWalk EXCEPT !.ptr = r.ptr, !.endcu = r.endcu,
                                             !.abbrev = r.abbrev,
                                             !.first = TRUE]
                   /\ pc' = "die"
                   /\ UNCHANGED edit_dwarf2_ret
     IN
     IF walk.ptr >= Len(debug_info)
     THEN /\ pc' = "line"
          /\ UNCHANGED <<cus, walk, diag, edit_dwarf2_ret>>
     ELSE Unit_(edit_info_header(debug_info, walk.ptr))
  /\ UNCHANGED <<cfg, call, list_file, disk, run, out1, scn, shdr, elf, need, lines, dso_strings,
                 phase, build_id, stdout, exit_code, written>>

\* edit_info, "We need str_offsets_base before processing the CU": the
\* scan of the first DIE's attributes from index i on with cursor fptr;
\* the value read, or the CU's field as it is.
RECURSIVE scan_str_offsets_base(_, _, _, _, _)
scan_str_offsets_base(sec, t, i, fptr, cu) ==
  IF i > t.nattr THEN cu.str_offsets_base
  ELSE IF t.attr[i].attr = DW_AT.str_offsets_base
  THEN do_read_32_relocated(sec, fptr)
  ELSE scan_str_offsets_base(sec, t, i + 1,
                             skip_form(t.attr[i].form, sec, fptr, cu).ptr, cu)

\* edit_info, the loop over the DIEs of a unit up to the call of
\* edit_attributes.
edit_info_die ==
  /\ pc = "die"
  /\ LET Die(sec, entry, ptr, t, cu) ==
           IF entry = 0
           THEN /\ walk' = [walk EXCEPT !.ptr = ptr]
                /\ pc' = "die"
                /\ UNCHANGED <<cus, diag, edit_dwarf2_ret>>
           ELSE IF t = 0
           THEN /\ diag' = Append(diag, "Could not find DWARF abbreviation")
                /\ edit_dwarf2_ret' = 1
                /\ pc' = "tail"
                /\ UNCHANGED <<walk, cus>>
           ELSE /\ cus' = IF walk.first /\ cu.cu_version >= 5
                          THEN [cus EXCEPT ![Len(cus)].str_offsets_base =
                                  scan_str_offsets_base(sec, walk.abbrev[t], 1,
                                                        ptr, cu)]
                          ELSE cus
                /\ walk' = [walk EXCEPT !.ptr = ptr, !.t = t, !.i = 0,
                              !.first = FALSE,
                              !.form = IF walk.abbrev[t].nattr > 0
                                       THEN walk.abbrev[t].attr[1].form ELSE 0,
                              !.comp_dir = NULLP, !.list_offs = 0,
                              !.found_list_offs = 0]
                /\ pc' = "attr"
                /\ UNCHANGED <<diag, edit_dwarf2_ret>>
     IN
     IF walk.ptr >= walk.endcu
     THEN /\ pc' = "cu"
          /\ UNCHANGED <<walk, cus, diag, edit_dwarf2_ret>>
     ELSE Die(debug_info, read_uleb128(debug_info, walk.ptr),
              uleb128_skip(debug_info, walk.ptr),
              htab_find(walk.abbrev, read_uleb128(debug_info, walk.ptr)),
              cus[Len(cus)])
  /\ UNCHANGED <<cfg, call, list_file, disk, run, out1, scn, shdr, elf, need, lines, dso_strings,
                 phase, build_id, stdout, exit_code, written>>

\* The string forms edit_attributes hands to edit_strp.
StrForms ==
  {DW_FORM.strp, DW_FORM.line_strp, DW_FORM.strx, DW_FORM.strx1,
   DW_FORM.strx2, DW_FORM.strx3, DW_FORM.strx4}

\* do_read_str_form_relocated: the offset into .debug_str or
\* .debug_line_str that the string form at ptr of sec stands for.
do_read_str_form_relocated(form, sec, ptr, cu) ==
  IF form \in {DW_FORM.strp, DW_FORM.line_strp}
  THEN do_read_32_relocated(sec, ptr)
  ELSE do_read_32_relocated(debug_str_offsets,
         cu.str_offsets_base
         + 4 * (CASE form = DW_FORM.strx1 -> ByteAt(sec, ptr)
                  [] form = DW_FORM.strx2 -> do_read_16(sec, ptr)
                  [] form = DW_FORM.strx3 -> do_read_24(sec, ptr)
                  [] form = DW_FORM.strx4 -> do_read_32(sec, ptr)
                  [] OTHER -> read_uleb128(sec, ptr)))

\* The pool and the section a string form refers to.
PoolOf(form) ==
  IF form = DW_FORM.line_strp THEN "debug_line_str" ELSE "debug_str"

\* An edit_comp_dir_string that writes the replacement and its NUL without
\* padding it to the length of the original.
edit_comp_dir_string_cut(sec, ptr, ph) ==
  LET Replace(comp_dir, file) ==
        LET Fit(found, new) ==
              [sec |-> IF found /\ ph = 1 /\ Len(new) <= Len(comp_dir)
                       THEN Splice(sec, ptr, new \o <<0>>) ELSE sec,
               replace |-> found /\ ph = 0,
               msg |-> IF found /\ ph = 1 /\ Len(comp_dir) < Len(new)
                       THEN <<"Warning, not replacing comp_dir">> ELSE <<>>]
        IN Fit(dest_dir # NULLP /\ file # NULLP,
               IF file = NULLP THEN <<>> ELSE ReplacementPath(file))
  IN Replace(CStr(sec, ptr), skip_dir_prefix(CStr(sec, ptr), base_dir))

\* An in-place replacement that writes dest_dir, '/' and the rest of the
\* path and pads with '/' after it.
edit_comp_dir_string_trailing(sec, ptr, ph) ==
  LET Replace(comp_dir, file) ==
        LET Fit(found, new) ==
              [sec |-> IF found /\ ph = 1 /\ Len(new) <= Len(comp_dir)
                       THEN Splice(sec, ptr,
                              new \o Fill(Slash, Len(comp_dir) - Len(new)))
                       ELSE sec,
               replace |-> found /\ ph = 0,
               msg |-> IF found /\ ph = 1 /\ Len(comp_dir) < Len(new)
                       THEN <<"Warning, not replacing comp_dir">> ELSE <<>>]
        IN Fit(dest_dir # NULLP /\ file # NULLP,
               IF file = NULLP THEN <<>> ELSE ReplacementPath(file))
  IN Replace(CStr(sec, ptr), skip_dir_prefix(CStr(sec, ptr), base_dir))

\* edit_attributes, DW_AT_comp_dir as DW_FORM_string at ptr of sec in phase
\* ph: the section afterwards, whether need_string_replacement is set, and
\* the warning printed.
edit_comp_dir_string(sec, ptr, ph) ==
  LET Replace(comp_dir, file) ==
        LET Fit(found, orig_len, dest_len, new_len) ==
              [sec |-> IF found /\ ph = 1 /\ ~(orig_len < new_len)
                       THEN Splice(Splice(sec, ptr, dest_dir), ptr + dest_len,
                                   Fill(Slash, orig_len - new_len))
                       ELSE sec,
               replace |-> found /\ ph = 0,
               msg |-> IF found /\ ph = 1 /\ orig_len < new_len
                       THEN <<"Warning, not replacing comp_dir">> ELSE <<>>]
        IN Fit(dest_dir # NULLP /\ file # NULLP, Len(comp_dir), Len(dest_dir),
               Len(dest_dir) + (IF Len(file) > 0 THEN 1 + Len(file) ELSE 0))
  IN Replace(CStr(sec, ptr), skip_dir_prefix(CStr(sec, ptr), base_dir))

\* The directory part edit_attributes takes from a CU name starting with
\* '/': the name up to its last '/', or "/" when that is the first byte.
NameDir(name) ==
  LET Dir(enddir) ==
        IF enddir # 1 THEN SubSeq(name, 1, enddir - 1) ELSE <<Slash>>
  IN Dir(CHOOSE k \in 1..Len(name) :
           /\ name[k] = Slash
           /\ \A j \in (k + 1)..Len(name) : name[j] # Slash)

\* "if (dest_dir && phase == 0) { if (record_file_string_entry_idx (...))
\* need_[line_]strp_update = true; handled_strp = true; }" for the string
\* form at old offset idx, on the pools S and the flags N.
record_file_attr(S, N, form, idx, ph) ==
  LET Recorded(pool, r) ==
        [strings |-> [S EXCEPT ![pool] = r.strings],
         need |-> IF r.ret
                  THEN [N EXCEPT ![IF form = DW_FORM.line_strp
                                   THEN "need_line_strp_update"
                                   ELSE "need_strp_update"] = TRUE]
                  ELSE N,
         handled_strp |-> TRUE, fatal |-> r.fatal]
  IN
  IF dest_dir # NULLP /\ ph = 0
  THEN Recorded(PoolOf(form),
         record_file_string_entry_idx(S[PoolOf(form)], scn[PoolOf(form)], idx))
  ELSE [strings |-> S, need |-> N, handled_strp |-> FALSE, fatal |-> <<>>]

\* An edit_strp that records nothing and clears the offset of a strp or
\* line_strp form in whichever phase it is called.
edit_strp_early(sec, S, N, form, ptr, ph, handled_strp, cu) ==
  [sec |-> IF form \in {DW_FORM.strp, DW_FORM.line_strp}
           THEN do_write_32_relocated(sec, ptr, 0) ELSE sec,
   strings |-> S, fatal |-> <<>>, abort |-> FALSE]

\* edit_strp on the section payload sec with the pools S and the flags N:
\* the section and the pools afterwards, what error (1, ...) printed, and
\* whether assert (ret != NULL) of string_find_entry failed.
edit_strp(sec, S, N, form, ptr, ph, handled_strp, cu) ==
  LET Same == [sec |-> sec, strings |-> S, fatal |-> <<>>, abort |-> FALSE]
      Record(pool, r) ==
        [sec |-> sec, strings |-> [S EXCEPT ![pool] = r.strings],
         fatal |-> r.fatal, abort |-> FALSE]
      Rewrite(pool, idx) ==
        IF tfind(S[pool], idx) = 0
        THEN [sec |-> sec, strings |-> S, fatal |-> <<>>, abort |-> TRUE]
        ELSE [sec |-> do_write_32_relocated(sec, ptr,
                                            NewStrOffset(S[pool], idx)),
              strings |-> S, fatal |-> <<>>, abort |-> FALSE]
  IN
  IF ph = 0
  THEN IF ~handled_strp
       THEN Record(PoolOf(form),
              record_existing_string_entry_idx(S[PoolOf(form)],
                scn[PoolOf(form)],
                do_read_str_form_relocated(form, sec, ptr, cu)))
       ELSE Same
  ELSE IF form \in {DW_FORM.strp, DW_FORM.line_strp}
          /\ (IF form = DW_FORM.line_strp THEN N.need_line_strp_update
              ELSE N.need_strp_update)
  THEN Rewrite(PoolOf(form), do_read_32_relocated(sec, ptr))
  ELSE Same

\* A find_new_list_offs that leaves every offset where it was.
find_new_list_offs_same(L, idx, ub) == [trap |-> FALSE, new_idx |-> idx]

\* Whether the registry is in the order of line_table_cmp, the order
\* bsearch takes its array to be in.
TablesSorted(table) ==
  \A i, j \in 1..Len(table) :
    i < j => line_table_cmp(table[i], table[j]) <= 0

\* find_new_list_offs (&dso->lines, idx): bsearch gives the table with
\* old_idx = idx and its new_idx is returned.  With no such table the
\* result of bsearch is NULL and table->new_idx reads through it: the
\* process traps or, where the load goes through, an undetermined value
\* comes back.  On a registry that qsort has not sorted bsearch finds the
\* table or gives NULL.
find_new_list_offs(L, idx, ub) ==
  LET Found(k) ==
        IF k # 0 /\ (TablesSorted(L.table) \/ ub = "run")
        THEN [trap |-> FALSE, new_idx |-> L.table[k].new_idx]
        ELSE [trap |-> ub = "trap", new_idx |-> heap]
  IN Found(FindTable(L.table, idx))

\* The outcomes of the undefined behaviour a step can run into.
UBOutcomes(undefined) == IF undefined THEN {"trap", "run"} ELSE {"run"}

\* The attribute edit_attributes is at, and whether it is a DW_AT_stmt_list
\* of form data4 or sec_offset.
cur_attr == walk.abbrev[walk.t].attr[walk.i + 1]

is_stmt_list ==
  cur_attr.attr = DW_AT.stmt_list
  /\ walk.form \in {DW_FORM.data4, DW_FORM.sec_offset}

\* edit_attributes, one pass through the body of its while (1) loop for
\* attribute walk.i of the DIE under the form walk.form, with ub the
\* outcome of the undefined read in find_new_list_offs: how the pass ends
\* (kind), the .debug_info payload, the flags, the pools, the CU, what
\* error () printed and the locals afterwards.
edit_attributes_pass(ub) ==
  LET t == walk.abbrev[walk.t]
      form == walk.form
      ptr == walk.ptr
      Out(kind, sec, N, S, cu, msg, W) ==
        [kind |-> kind, sec |-> sec, need |-> N, strings |-> S, cu |-> cu,
         msg |-> msg, walk |-> W]
      \* switch (skip_form (dso, &form, &ptr, cu))
      Skip(val32, cu1, cs_msg, comp_dir1, need1, es, sk) ==
        Out(IF sk.res = "FORM_ERROR" THEN "form_error" ELSE "ok",
            es.sec, need1, es.strings, cu1, cs_msg \o sk.msg,
            [walk EXCEPT
               !.ptr = sk.ptr,
               !.i = IF sk.res = "FORM_INDIRECT" THEN @ ELSE @ + 1,
               !.form = IF sk.res = "FORM_INDIRECT" THEN sk.form
                        ELSE IF walk.i + 1 < t.nattr
                        THEN t.attr[walk.i + 2].form ELSE 0,
               !.comp_dir = comp_dir1,
               !.list_offs = IF is_stmt_list THEN val32 ELSE @,
               !.found_list_offs =
                 IF is_stmt_list /\ phase = 0 THEN 1 ELSE @])
      \* switch (form): edit_strp
      Strp(val32, cu1, cs_msg, comp_dir1, need1, sec2, es) ==
        IF es.fatal # <<>>
        THEN Out("fatal", sec2, need, dso_strings, cu1, es.fatal, walk)
        ELSE IF es.abort
        THEN Out("abort", sec2, need, dso_strings, cu1,
                 <<"Assertion `ret != NULL' failed">>, walk)
        ELSE Skip(val32, cu1, cs_msg, comp_dir1, need1, es,
                  skip_form(form, es.sec, ptr, cu1))
      Flags(val32, cu1, cs_msg, comp_dir1, sec2, rf, need1) ==
        Strp(val32, cu1, cs_msg, comp_dir1, need1, sec2,
             IF form \in StrForms
             THEN edit_strp(sec2, rf.strings, need1, form, ptr, phase,
                            rf.handled_strp, cu1)
             ELSE [sec |-> sec2, strings |-> rf.strings, fatal |-> <<>>,
                   abort |-> FALSE])
      File(val32, cu1, cs_msg, comp_dir1, sec2, replace, bad_idx, rf) ==
        IF bad_idx
        THEN Out("fatal", sec2, need, dso_strings, cu1,
                 <<"Bad string pointer index">>, walk)
        ELSE IF rf.fatal # <<>>
        THEN Out("fatal", sec2, need, dso_strings, cu1, rf.fatal, walk)
        ELSE Flags(val32, cu1, cs_msg, comp_dir1, sec2, rf,
                   IF replace
                   THEN [rf.need EXCEPT !.need_string_replacement = TRUE]
                   ELSE rf.need)
      \* DW_AT_comp_dir, then DW_AT_name of a compile or partial unit
      Dir(val32, cu1, sec1, cd_string, cd_strp, is_name, cs, idx, strsec) ==
        File(val32, cu1, IF cd_string THEN cs.msg ELSE <<>>,
             IF cd_string THEN CStr(sec1, ptr)
             ELSE IF cd_strp /\ phase = 0 THEN CStr(strsec, idx)
             ELSE IF is_name /\ phase = 0 /\ walk.comp_dir = NULLP
                     /\ ByteAt(strsec, idx) = Slash
             THEN NameDir(CStr(strsec, idx))
             ELSE walk.comp_dir,
             IF cd_string THEN cs.sec ELSE sec1,
             cd_string /\ cs.replace,
             (cd_strp \/ is_name) /\ phase = 0
               /\ (Big(idx) \/ idx >= Len(strsec)),
             IF cd_strp \/ is_name
             THEN record_file_attr(dso_strings, need, form, idx, phase)
             ELSE [strings |-> dso_strings, need |-> need,
                   handled_strp |-> FALSE, fatal |-> <<>>])
      Kind(val32, cu1, sec1, is_cd) ==
        Dir(val32, cu1, sec1,
            is_cd /\ form = DW_FORM.string,
            is_cd /\ form \in StrForms,
            /\ ~is_cd
            /\ t.tag \in {DW_TAG.compile_unit, DW_TAG.partial_unit}
            /\ \/ form = DW_FORM.strp /\ debug_str # <<>>
               \/ form = DW_FORM.line_strp /\ debug_line_str # <<>>
               \/ form \in StrForms \ {DW_FORM.strp, DW_FORM.line_strp}
                  /\ debug_str_offsets # <<>>
            /\ cur_attr.attr = DW_AT.name,
            edit_comp_dir_string(sec1, ptr, phase),
            do_read_str_form_relocated(form, sec1, ptr, cu1),
            scn[PoolOf(form)])
      \* DW_AT_macros
      Macros(val32, sec1, cu) ==
        Kind(val32,
             IF cur_attr.attr = DW_AT.macros
             THEN [cu EXCEPT !.macros_offs = do_read_32_relocated(sec1, ptr)]
             ELSE cu,
             sec1, cur_attr.attr = DW_AT.comp_dir)
      \* DW_AT_stmt_list
      Stmt(sec, val32, rewrite, fl) ==
        IF rewrite /\ fl.trap
        THEN Out("trap", sec, need, dso_strings, cus[Len(cus)], <<>>, walk)
        ELSE Macros(val32,
                    IF rewrite
                    THEN do_write_32_relocated(sec, ptr, fl.new_idx) ELSE sec,
                    cus[Len(cus)])
  IN Stmt(debug_info, do_read_32_relocated(debug_info, ptr),
          is_stmt_list /\ phase = 1 /\ need.need_stmt_update,
          find_new_list_offs(lines, do_read_32_relocated(debug_info, ptr), ub))

\* Whether find_new_list_offs is about to look up an offset that has no
\* table.
stmt_list_unregistered ==
  /\ is_stmt_list /\ phase = 1 /\ need.need_stmt_update
  /\ FindTable(lines.table, do_read_32_relocated(debug_info, walk.ptr)) = 0

\* edit_attributes, the body of the loop over the attributes.  A trap ends
\* the process with SIGSEGV, a failed assertion with SIGABRT, error (1, ...)
\* with status 1; after FORM_ERROR edit_attributes returns NULL, edit_info
\* leaves the DIE loop and reads the next CU header through the NULL cursor.
edit_attribute ==
  /\ pc = "attr"
  /\ walk.i < walk.abbrev[walk.t].nattr
  /\ \E ub \in UBOutcomes(stmt_list_unregistered) :
       LET Apply(r) ==
             IF r.kind = "trap"
             THEN /\ exit_code' = 139
                  /\ pc' = "done"
                  /\ UNCHANGED <<scn, need, dso_strings, cus, walk, diag>>
             ELSE IF r.kind \in {"fatal", "abort"}
             THEN /\ diag' = diag \o r.msg
                  /\ exit_code' = IF r.kind = "fatal" THEN 1 ELSE 134
                  /\ pc' = "done"
                  /\ scn' = [scn EXCEPT !.debug_info = r.sec]
                  /\ cus' = [cus EXCEPT ![Len(cus)] = r.cu]
                  /\ UNCHANGED <<need, dso_strings, walk>>
             ELSE /\ scn' = [scn EXCEPT !.debug_info = r.sec]
                  /\ need' = r.need
                  /\ dso_strings' = r.strings
                  /\ cus' = [cus EXCEPT ![Len(cus)] = r.cu]
                  /\ diag' = diag \o r.msg
                  /\ IF r.kind = "form_error"
                     THEN /\ exit_code' = 139
                          /\ pc' = "done"
                          /\ UNCHANGED walk
                     ELSE /\ walk' = r.walk
                          /\ pc' = "attr"
                          /\ UNCHANGED exit_code
       IN Apply(edit_attributes_pass(ub))
  /\ UNCHANGED <<cfg, call, list_file, disk, run, out1, shdr, elf, lines, phase, edit_dwarf2_ret,
                 build_id, stdout, written>>

\* edit_attributes, "Ensure the CU current directory will exist"
\* (2594-2620): what phase 0 appends to the list file for comp_dir, the
\* part after base_dir with a '/' at its end.  Every write succeeds.
list_comp_dir(comp_dir) ==
  LET Write(p) ==
        IF p # NULLP /\ p # <<>>
        THEN p \o (IF p[Len(p)] # Slash THEN <<Slash, 0>> ELSE <<0>>)
        ELSE <<>>
  IN IF base_dir # NULLP /\ comp_dir # NULLP /\ list_file_fd # -1
     THEN Write(skip_dir_prefix(comp_dir, base_dir))
     ELSE <<>>

\* edit_attributes after the last attribute: in phase 0 comp_dir is listed
\* and the DIE's line table is read.
edit_attributes_end ==
  /\ pc = "attr"
  /\ walk.i = walk.abbrev[walk.t].nattr
  /\ LET Read(r) ==
           /\ lines' = r.lines
           /\ diag' = diag \o r.msg
           /\ need' = IF r.ret THEN [need EXCEPT !.need_stmt_update = TRUE]
                      ELSE need
           /\ list_file' = list_file \o list_comp_dir(walk.comp_dir) \o r.list
     IN
     IF phase = 0 /\ walk.found_list_offs = 1
     THEN Read(read_dwarf2_line(lines, walk.list_offs, walk.comp_dir,
                                Len(cus), cus))
     ELSE /\ list_file' = list_file
                          \o (IF phase = 0 THEN list_comp_dir(walk.comp_dir)
                              ELSE <<>>)
          /\ UNCHANGED <<lines, diag, need>>
  /\ pc' = "die"
  /\ UNCHANGED <<cfg, call, disk, run, out1, scn, shdr, elf, dso_strings, cus, phase,
                 walk, edit_dwarf2_ret, build_id, stdout, exit_code, written>>

\* sh_entsize of the SHT_RELA and the SHT_REL section of an ELF64 object.
RelaSize == 24
RelSize == 16

\* debug_sections[DEBUG_LINE].relsec as edit_dwarf2 sets it in its loop
\* over the sections (3001-3036): the last .rela.debug_line or
\* .rel.debug_line of an ET_REL object, an object without program headers;
\* "" stands for 0.
line_relsec ==
  IF phnum = 0 /\ scn.rel_debug_line # <<>> THEN "rel_debug_line"
  ELSE IF phnum = 0 /\ scn.rela_debug_line # <<>> THEN "rela_debug_line"
  ELSE ""

\* sh_entsize of the relocation section rs.
sh_entsize(rs) == IF rs = "rela_debug_line" THEN RelaSize ELSE RelSize

\* Where the low 32 bits of the 64-bit r_offset of record ndx lie in rdata.
r_offset_at(ndx, entsize) ==
  ndx * entsize + (IF ei_data = "ELFDATA2LSB" THEN 0 ELSE 4)

\* gelf_getrela / gelf_getrel (rdata, ndx, &rel): r_offset, which is below
\* 2^32 in every input.
gelf_getrel(rdata, ndx, entsize) ==
  do_read_32(rdata, r_offset_at(ndx, entsize))

\* gelf_update_rela / gelf_update_rel with a new r_offset: the low and the
\* high 32 bits of the 64-bit field.
gelf_update_rel(rdata, ndx, entsize, r_offset) ==
  Splice(Splice(rdata, r_offset_at(ndx, entsize), do_write_32(r_offset)),
         ndx * entsize + (IF ei_data = "ELFDATA2LSB" THEN 4 ELSE 0),
         do_write_32(IF r_offset < 0 THEN UINT_MAX ELSE 0))

\* line_rel_cmp orders LINE_RELs by r_offset; qsort with it.
line_rel_cmp(rela, relb) ==
  IF rela.r_offset < relb.r_offset THEN -1
  ELSE IF rela.r_offset > relb.r_offset THEN 1 ELSE 0

RECURSIVE SortRels(_)
SortRels(rbuf) ==
  IF rbuf = <<>> THEN <<>>
  ELSE LET m == CHOOSE i \in 1..Len(rbuf) :
                  \A j \in 1..Len(rbuf) : line_rel_cmp(rbuf[i], rbuf[j]) <= 0
           rest == [k \in 1..(Len(rbuf) - 1) |->
                      IF k < m THEN rbuf[k] ELSE rbuf[k + 1]]
       IN <<rbuf[m]>> \o SortRels(rest)

\* "while (lndx < dso->lines.used && r_offset > old_idx + 4 + unit_length)
\* lndx++;" with lndx counted from 1.
RECURSIVE line_rel_table(_, _, _)
line_rel_table(table, lndx, r_offset) ==
  IF lndx <= Len(table)
     /\ r_offset > table[lndx].old_idx + 4 + table[lndx].unit_length
  THEN line_rel_table(table, lndx + 1, r_offset)
  ELSE lndx

\* edit_dwarf2, the loop over the sorted relocations of .debug_line from
\* rbuf[i] on (3142-3197): the relocation data afterwards, or what
\* error (1, ...) printed.
RECURSIVE update_line_rels(_, _, _, _, _, _)
update_line_rels(rdata, entsize, rbuf, i, lndx, table) ==
  LET Move(r_offset, l) ==
        IF l > Len(table)
        THEN [fatal |-> <<".debug_line relocation offset out of range">>,
              rdata |-> rdata]
        ELSE update_line_rels(
               gelf_update_rel(rdata, rbuf[i].ndx, entsize,
                 r_offset + ((table[l].new_idx - table[l].old_idx)
                             + table[l].size_diff)),
               entsize, rbuf, i + 1, l, table)
      Rel(r_offset) == Move(r_offset, line_rel_table(table, lndx, r_offset))
  IN IF i > Len(rbuf) THEN [fatal |-> <<>>, rdata |-> rdata]
     ELSE Rel(gelf_getrel(rdata, rbuf[i].ndx, entsize))

\* edit_dwarf2, "Update the debug_line relocations to the new offsets"
\* (3105-3201) for the relocation section rs and the emitted tables.
edit_dwarf2_line_rels(rs, table) ==
  LET Sorted(rdata, entsize) ==
        update_line_rels(rdata, entsize,
          SortRels([i \in 1..(Len(rdata) \div entsize) |->
                      [r_offset |-> gelf_getrel(rdata, i - 1, entsize),
                       ndx |-> i - 1]]),
          1, 1, table)
  IN IF rs = "" THEN [fatal |-> <<>>, rdata |-> <<>>]
     ELSE Sorted(scn[rs], sh_entsize(rs))

\* edit_dwarf2, "if (phase == 0 && need_stmt_update) edit_dwarf2_line":
\* the new .debug_line payload is emitted into a buffer of debug_lines_len
\* bytes.  Writing more than was allocated overruns the heap block: the
\* process traps, or goes on with the bytes that fit.  Bytes of the block
\* that are never written keep what malloc left there.
edit_dwarf2_lines ==
  /\ pc = "line"
  /\ LET Rels(e, len, rs, r) ==
           /\ lines' = [lines EXCEPT !.table = e.table, !.line_buf = e.out]
           /\ scn' = [n \in DOMAIN scn |->
                        IF n = "debug_line"
                        THEN [k \in 1..len |->
                                IF k <= Len(e.out) THEN e.out[k] ELSE heap]
                        ELSE IF n = rs /\ r.fatal = <<>> THEN r.rdata
                        ELSE scn[n]]
           /\ IF r.fatal # <<>>
              THEN /\ diag' = diag \o r.fatal
                   /\ exit_code' = 1
                   /\ pc' = "done"
                   /\ UNCHANGED elf
              ELSE /\ elf' = [elf EXCEPT
                                !.dirty = @ \cup {"debug_line"}
                                            \cup (IF rs = "" THEN {} ELSE {rs})]
                   /\ pc' = "macro"
                   /\ UNCHANGED <<diag, exit_code>>
         Emit(e, len) ==
           \E ub \in UBOutcomes(Len(e.out) > len) :
             IF ub = "trap"
             THEN /\ exit_code' = 139
                  /\ pc' = "done"
                  /\ UNCHANGED <<lines, scn, elf, diag>>
             ELSE Rels(e, len, line_relsec,
                       edit_dwarf2_line_rels(line_relsec, e.table))
     IN
     IF phase = 0 /\ need.need_stmt_update
     THEN Emit(emit_tables(debug_line, SortTables(lines.table), 1, <<>>),
               lines.debug_lines_len)
     ELSE /\ pc' = "macro"
          /\ UNCHANGED <<lines, scn, elf, exit_code, diag>>
  /\ UNCHANGED <<cfg, call, list_file, disk, run, out1, shdr, need, dso_strings, cus, phase,
                 walk, edit_dwarf2_ret, build_id, stdout, written>>

\* The operations of .debug_macro.
DW_MACRO ==
  [define |-> 1, undef |-> 2, start_file |-> 3, end_file |-> 4,
   define_indirect |-> 5, undef_indirect |-> 6, transparent_include |-> 7,
   define_strx |-> 11, undef_strx |-> 12]

\* find_macro_cu (dso, macros_offs): the walk from dso->cus along next,
\* that is from the CU edit_info linked in last (2674-2675) to the oldest;
\* the index in cus_ of the first CU on that walk with that macros_offs, or
\* else of dso->cus, the CU linked in last.
find_macro_cu(cus_, macros_offs) ==
  LET S == {k \in 1..Len(cus_) : cus_[k].macros_offs = macros_offs}
  IN IF S = {} THEN Len(cus_) ELSE CHOOSE k \in S : \A j \in S : k >= j

\* edit_dwarf2, the walk of one .debug_macro section in phase ph
\* (3212-3310), strings being the .debug_str pool and ub the outcome of an
\* undefined read in find_new_list_offs.  edit_macro_ops is the loop from
\* "op = read_8 (ptr)" at ptr on, in the unit of the CU cu;
\* edit_macro_unit is the loop from the unit header at ptr on.  kind says
\* how the walk ended, msg is what error (1, ...) printed.
RECURSIVE edit_macro_unit(_, _, _, _, _)
RECURSIVE edit_macro_ops(_, _, _, _, _, _)
edit_macro_ops(sec, ptr, cu, strings, ph, ub) ==
  LET Out(kind, msg) ==
        [kind |-> kind, sec |-> sec, strings |-> strings, msg |-> msg]
      Next(sec1, p, strings1) ==
        IF p >= Len(sec1)
        THEN [kind |-> "ok", sec |-> sec1, strings |-> strings1, msg |-> <<>>]
        ELSE edit_macro_ops(sec1, p, cu, strings1, ph, ub)
      Record(r, p) ==
        IF r.fatal # <<>> THEN Out("fatal", r.fatal)
        ELSE Next(sec, p, r.strings)
      Indirect(p, idx) ==
        IF ph = 0
        THEN Record(record_existing_string_entry_idx(strings, debug_str, idx),
                    p + 4)
        ELSE IF tfind(strings, idx) = 0 THEN Out("abort", <<>>)
        ELSE Next(do_write_32_relocated(sec, p, NewStrOffset(strings, idx)),
                  p + 4, strings)
      Strx(p) ==
        IF ph = 0
        THEN Record(record_existing_string_entry_idx(strings, debug_str,
                      do_read_str_form_relocated(DW_FORM.strx, sec, p,
                                                 cus[cu])),
                    uleb128_skip(sec, p))
        ELSE Next(sec, uleb128_skip(sec, p), strings)
      Op(op, p) ==
        IF op = 0
        THEN IF p >= Len(sec) THEN Out("ok", <<>>)
             ELSE edit_macro_unit(sec, p, strings, ph, ub)
        ELSE IF op \in {DW_MACRO.define, DW_MACRO.undef}
        THEN Next(sec, uleb128_skip(sec, p)
                       + strlen_at(sec, uleb128_skip(sec, p)) + 1, strings)
        ELSE IF op = DW_MACRO.start_file
        THEN Next(sec, uleb128_skip(sec, uleb128_skip(sec, p)), strings)
        ELSE IF op = DW_MACRO.end_file THEN Next(sec, p, strings)
        ELSE IF op \in {DW_MACRO.define_indirect, DW_MACRO.undef_indirect}
        THEN Indirect(uleb128_skip(sec, p),
                      do_read_32_relocated(sec, uleb128_skip(sec, p)))
        ELSE IF op = DW_MACRO.transparent_include THEN Next(sec, p + 4, strings)
        ELSE IF op \in {DW_MACRO.define_strx, DW_MACRO.undef_strx}
        THEN Strx(uleb128_skip(sec, p))
        ELSE Out("fatal", <<"Unhandled DW_MACRO op">>)
  IN Op(ByteAt(sec, ptr), ptr + 1)

edit_macro_unit(sec, ptr, strings, ph, ub) ==
  LET Out(kind, msg) ==
        [kind |-> kind, sec |-> sec, strings |-> strings, msg |-> msg]
      LineOffset(cu, p, r) ==
        IF r.trap THEN Out("trap", <<>>)
        ELSE edit_macro_ops(do_write_32_relocated(sec, p, r.new_idx), p + 4,
                            cu, strings, ph, ub)
      Header(cu, macro_version, macro_flags, p) ==
        IF macro_version < 4 \/ macro_version > 5
        THEN Out("fatal", <<"unhandled .debug_macro version">>)
        ELSE IF macro_flags \notin {0, 2}
        THEN Out("fatal", <<"unhandled .debug_macro flags">>)
        ELSE IF macro_flags = 2
        THEN IF ph = 0 THEN edit_macro_ops(sec, p + 4, cu, strings, ph, ub)
             ELSE LineOffset(cu, p,
                    find_new_list_offs(lines, do_read_32_relocated(sec, p), ub))
        ELSE edit_macro_ops(sec, p, cu, strings, ph, ub)
  IN Header(find_macro_cu(cus, ptr), do_read_16(sec, ptr),
            ByteAt(sec, ptr + 2), ptr + 3)

\* Whether a unit of .debug_macro from ptr on has a line offset that is no
\* table's old_idx (the units of the objects begin after a 0 operation).
RECURSIVE macro_line_unregistered(_, _)
macro_line_unregistered(sec, ptr) ==
  IF ptr + 7 > Len(sec) THEN FALSE
  ELSE \/ /\ ptr = 0 \/ ByteAt(sec, ptr - 1) = 0
          /\ do_read_16(sec, ptr) \in {4, 5} /\ ByteAt(sec, ptr + 2) = 2
          /\ FindTable(lines.table, do_read_32_relocated(sec, ptr + 3)) = 0
       \/ macro_line_unregistered(sec, ptr + 1)

\* edit_dwarf2, "The .debug_macro section also contains offsets into the
\* .debug_str section and references to the .debug_line tables": the walk
\* of .debug_macro in the phase at hand.  error (1, ...) ends the process
\* with status 1, a failed assertion with SIGABRT, a trap with SIGSEGV.
edit_dwarf2_macro ==
  /\ pc = "macro"
  /\ LET Walked(r) ==
           /\ scn' = [scn EXCEPT !.debug_macro = r.sec]
           /\ dso_strings' = [dso_strings EXCEPT !.debug_str = r.strings]
           /\ diag' = diag \o r.msg
           /\ exit_code' = CASE r.kind = "fatal" -> 1
                              [] r.kind = "abort" -> 134
                              [] r.kind = "trap" -> 139
                              [] OTHER -> exit_code
           /\ pc' = IF r.kind = "ok" THEN "line5" ELSE "done"
     IN
     IF (need.need_strp_update \/ need.need_stmt_update) /\ debug_macro # <<>>
     THEN \E ub \in UBOutcomes(phase = 1
                                /\ \/ macro_line_unregistered(debug_macro, 0)
                                   \/ ~TablesSorted(lines.table)) :
            Walked(edit_macro_unit(debug_macro, 0, dso_strings.debug_str,
                                   phase, ub))
     ELSE /\ pc' = "line5"
          /\ UNCHANGED <<scn, dso_strings, diag, exit_code>>
  /\ UNCHANGED <<cfg, call, list_file, disk, run, out1, shdr, elf, need, lines,
                 cus, phase, walk, edit_dwarf2_ret, build_id, stdout, written>>

\* edit_dwarf2_any_str for the pool named pool: the section payload
\* becomes the finalized string table.
edit_dwarf2_any_str(S, pool) == strtab_finalize(str_tab(S[pool]))

\* The content type codes of the entry formats of a version 5 line table.
DW_LNCT == [path |-> 1, directory_index |-> 2]

\* read_dwarf5_line_entries, the loop over the formats of one entry
\* (2053-2180): left formats are to go, the next one at format_ptr.  st
\* holds the section payload, the cursor *ptrp, the pools, the flags, the
\* directories collected and how the walk stands: "ok", "false" (the
\* function returned false after error (0, ...)), "fatal" (error (1, ...)),
\* "abort" (the assertion of string_find_entry) or "ub" (a read through a
\* NULL or out of bounds pointer).  mode is "dirs" when collecting_dirs,
\* "files" when writing_files, "" in phase 1.
RECURSIVE line5_formats(_, _, _, _, _, _, _, _)

\* The walk stopped in state s: st is s with how it ended and the message.
line5_stop(s, kind, m, dir, file) ==
  [st |-> [s EXCEPT !.kind = kind, !.msg = @ \o m], dir |-> dir, file |-> file]

\* "if (!handled_form) switch (skip_form (...))" for the value at p, and
\* the next format at fp.
line5_skip(s, t, ph, mode, fp, left, form, p, dir, file, handled_form) ==
  LET Adv(r) ==
        IF r.res = "FORM_OK"
        THEN line5_formats([s EXCEPT !.ptr = r.ptr], t, ph, mode, fp,
                           left - 1, dir, file)
        ELSE IF r.res = "FORM_ERROR"
        THEN line5_stop(s, "false", r.msg, dir, file)
        ELSE line5_stop(s, "false",
                        <<"Unsupported .debug_line DW_FORM_indirect">>,
                        dir, file)
  IN IF handled_form
     THEN line5_formats([s EXCEPT !.ptr = p], t, ph, mode, fp, left - 1,
                        dir, file)
     ELSE Adv(skip_form(form, s.sec, p, cus[t.cu]))

\* "switch (form) { case DW_FORM_strp: ... edit_strp (...) }" and on.
line5_strp(s, t, ph, mode, fp, left, form, p, dir, file, handled_form, handled_strp) ==
  LET Edited(r) ==
        IF r.fatal # <<>> THEN line5_stop(s, "fatal", r.fatal, dir, file)
        ELSE IF r.abort THEN line5_stop(s, "abort", <<>>, dir, file)
        ELSE line5_skip([s EXCEPT !.sec = r.sec, !.S = r.strings], t, ph,
                        mode, fp, left, form, p, dir, file, handled_form)
  IN IF form \in StrForms
     THEN Edited(edit_strp(s.sec, s.S, s.N, form, p, ph, handled_strp,
                           cus[t.cu]))
     ELSE line5_skip(s, t, ph, mode, fp, left, form, p, dir, file,
                     handled_form)

\* "if (writing_files && lnct == DW_LNCT_directory_index)" and on: the
\* directory (*dirs)[dirndx], read past the end of dirs when dirndx is
\* ndir.
line5_dirndx(s, t, ph, mode, fp, left, lnct, form, dir, file, handled_strp) ==
  LET Index(dirndx, p, handled_form) ==
        IF Big(dirndx) \/ dirndx > Len(s.dirs)
        THEN line5_stop(s, "false", <<"Bad dir number in .debug_line">>,
                        dir, file)
        ELSE IF dirndx = Len(s.dirs)
        THEN line5_stop(s, "ub", <<>>, dir, file)
        ELSE line5_strp(s, t, ph, mode, fp, left, form, p,
                        s.dirs[dirndx + 1], file, handled_form, handled_strp)
  IN IF mode = "files" /\ lnct = DW_LNCT.directory_index
     THEN CASE form = DW_FORM.udata ->
                 Index(read_uleb128(s.sec, s.ptr),
                       uleb128_skip(s.sec, s.ptr), TRUE)
            [] form = DW_FORM.data1 ->
                 Index(ByteAt(s.sec, s.ptr), s.ptr, FALSE)
            [] form = DW_FORM.data2 ->
                 Index(do_read_16(s.sec, s.ptr), s.ptr, FALSE)
            [] form = DW_FORM.data4 ->
                 Index(do_read_32(s.sec, s.ptr), s.ptr, FALSE)
            [] OTHER ->
                 line5_stop(s, "false",
                            <<"Unsupported .debug_line dirndx DW_FORM">>,
                            dir, file)
     ELSE line5_strp(s, t, ph, mode, fp, left, form, s.ptr, dir, file,
                     FALSE, handled_strp)

\* "case DW_FORM_strp: case DW_FORM_line_strp: if (phase == 0)" for a
\* path at the offset idx of pool: the string is recorded when there is a
\* destination directory, and is the dir or the file of the entry (a path
\* that lies outside its pool counts as read at once).
line5_path(s, t, ph, mode, fp, left, lnct, form, dir, file, idx, pool) ==
  LET Named(s1) ==
        IF Big(idx) \/ idx >= Len(scn[pool])
        THEN line5_stop(s1, "ub", <<>>, dir, file)
        ELSE line5_dirndx(s1, t, ph, mode, fp, left, lnct, form,
                          IF mode = "dirs" THEN CStr(scn[pool], idx) ELSE dir,
                          IF mode = "files" THEN CStr(scn[pool], idx)
                          ELSE file,
                          TRUE)
      Recorded(r) ==
        IF r.fatal # <<>> THEN line5_stop(s, "fatal", r.fatal, dir, file)
        ELSE Named([s EXCEPT !.S = r.strings, !.N = r.need])
  IN IF dest_dir # NULLP
     THEN Recorded(record_file_attr(s.S, s.N, form, idx, ph))
     ELSE Named(s)

\* One format (lnct, form) of the entry, the next one at fp.
line5_format(s, t, ph, mode, fp, left, lnct, form, dir, file) ==
  IF lnct = DW_LNCT.path
  THEN IF form \in {DW_FORM.strp, DW_FORM.line_strp}
       THEN IF ph = 0
            THEN line5_path(s, t, ph, mode, fp, left, lnct, form, dir, file,
                            do_read_32_relocated(s.sec, s.ptr), PoolOf(form))
            ELSE line5_dirndx(s, t, ph, mode, fp, left, lnct, form, dir,
                              file, FALSE)
       ELSE line5_stop(s, "false", <<"Unsupported .debug_line path DW_FORM">>,
                       dir, file)
  ELSE line5_dirndx(s, t, ph, mode, fp, left, lnct, form, dir, file, FALSE)

line5_formats(st, t, ph, mode, format_ptr, left, dir, file) ==
  IF left = 0 THEN [st |-> st, dir |-> dir, file |-> file]
  ELSE line5_format(st, t, ph, mode,
                    uleb128_skip(st.sec, uleb128_skip(st.sec, format_ptr)),
                    left, read_uleb128(st.sec, format_ptr),
                    read_uleb128(st.sec, uleb128_skip(st.sec, format_ptr)),
                    dir, file)

\* read_dwarf5_line_entries, the loop over the entries (2046-2224): left
\* entries are to go, each of format_count formats from formats on.
RECURSIVE line5_entries(_, _, _, _, _, _, _)
line5_entries(st, t, ph, mode, formats, format_count, left) ==
  LET Entry(r) ==
        LET Listed(s, comp_dir) ==
              IF r.file = NULLP \/ r.dir = NULLP
              THEN [s EXCEPT !.kind = "ub"]
              ELSE line5_entries(
                     [s EXCEPT !.list =
                        @ \o (IF list_file_fd # -1
                              THEN list_source(SourcePath(comp_dir, r.dir,
                                                          r.file))
                              ELSE <<>>)],
                     t, ph, mode, formats, format_count, left - 1)
        IN IF r.st.kind # "ok" THEN r.st
           ELSE IF mode = "dirs"
           THEN line5_entries([r.st EXCEPT !.dirs = Append(@, r.dir)], t, ph,
                              mode, formats, format_count, left - 1)
           ELSE IF mode = "files"
           THEN IF r.st.dirs = <<>> THEN [r.st EXCEPT !.kind = "ub"]
                ELSE Listed(r.st, r.st.dirs[1])
           ELSE line5_entries(r.st, t, ph, mode, formats, format_count,
                              left - 1)
  IN IF left = 0 THEN st
     ELSE Entry(line5_formats(st, t, ph, mode, formats, format_count,
                              NULLP, NULLP))

\* read_dwarf5_line_entries (dso, &ptr, table, phase, &dirs, &ndir, name)
\* from st.ptr on: the format count, the formats, the entry count and the
\* entries.
RECURSIVE uleb128_skips(_, _, _)
uleb128_skips(buf, ptr, n) ==
  IF n = 0 THEN ptr ELSE uleb128_skips(buf, uleb128_skip(buf, ptr), n - 1)

read_dwarf5_line_entries(st, t, ph, mode) ==
  LET Counted(format_count, p) ==
        line5_entries([st EXCEPT !.ptr = uleb128_skip(st.sec, p)], t, ph, mode,
                      st.ptr + 1, format_count, read_uleb128(st.sec, p))
  IN Counted(ByteAt(st.sec, st.ptr),
             uleb128_skips(st.sec, st.ptr + 1, 2 * ByteAt(st.sec, st.ptr)))

\* read_dwarf5_line (dso, ptr, table, phase) on the table at ptr of the
\* section payload of st: the directories, then, when those returned true,
\* the file names.
read_dwarf5_line(st, ptr, t, ph) ==
  LET Files(d) ==
        IF d.kind # "ok" THEN d
        ELSE read_dwarf5_line_entries(d, t, ph,
                                      IF ph = 0 THEN "files" ELSE "")
  IN Files(read_dwarf5_line_entries(
             [st EXCEPT !.ptr = ptr + LineHeaderSize(t.version)
                                + t.opcode_base - 1,
                        !.dirs = <<>>],
             t, ph, IF ph = 0 THEN "dirs" ELSE ""))

\* "Now handle all the DWARF5 line tables" (3313-3330): read_dwarf5_line on
\* every registered table of version 5 from ldx on, at its new_idx in the
\* line buffer; what read_dwarf5_line returns is not looked at.
RECURSIVE read_dwarf5_lines(_, _, _)
read_dwarf5_lines(st, ldx, ph) ==
  LET Read(r) ==
        IF r.kind \in {"fatal", "abort", "ub"} THEN r
        ELSE read_dwarf5_lines([r EXCEPT !.kind = "ok"], ldx + 1, ph)
  IN IF ldx > Len(lines.table) THEN st
     ELSE IF lines.table[ldx].version >= 5
     THEN Read(read_dwarf5_line(st, lines.table[ldx].new_idx,
                                lines.table[ldx], ph))
     ELSE read_dwarf5_lines(st, ldx + 1, ph)

\* edit_dwarf2, the walk of the version 5 line tables in the phase at
\* hand, after the walk of .debug_macro.  error (1, ...) ends the process
\* with status 1, a failed assertion with SIGABRT, a trap with SIGSEGV.
edit_dwarf2_lines5 ==
  /\ pc = "line5"
  /\ LET Walked(r) ==
           \E ub \in UBOutcomes(r.kind = "ub") :
             /\ scn' = [scn EXCEPT !.debug_line = r.sec]
             /\ dso_strings' = r.S
             /\ need' = r.N
             /\ list_file' = list_file \o r.list
             /\ diag' = diag \o r.msg
             /\ exit_code' = CASE r.kind = "fatal" -> 1
                                [] r.kind = "abort" -> 134
                                [] ub = "trap" -> 139
                                [] OTHER -> exit_code
             /\ pc' = IF r.kind \in {"fatal", "abort"} \/ ub = "trap"
                      THEN "done" ELSE "str"
     IN Walked(read_dwarf5_lines(
                 [kind |-> "ok", sec |-> debug_line, ptr |-> 0,
                  S |-> dso_strings, N |-> need, list |-> <<>>, msg |-> <<>>,
                  dirs |-> <<>>],
                 1, phase))
  /\ UNCHANGED <<cfg, call, disk, run, out1, shdr, elf, lines, cus, phase,
                 walk, edit_dwarf2_ret, build_id, stdout, written>>

\* edit_dwarf2, the end of the body of the phase loop: the string sections
\* are rebuilt after phase 0 (the object has no .debug_macro section and no
\* version 5 line table), .debug_str with the dummy string when there is a
\* .debug_str_offsets section.
edit_dwarf2_strs ==
  /\ pc = "str"
  /\ LET do_str == phase = 0 /\ need.need_strp_update
         do_line_str == phase = 0 /\ need.need_line_strp_update
     IN
     /\ dso_strings' = [dso_strings EXCEPT
                          !.debug_str.dummy =
                            @ \/ (do_str /\ debug_str_offsets # <<>>)]
     /\ scn' = [scn EXCEPT
                  !.debug_str = IF do_str
                                THEN edit_dwarf2_any_str(dso_strings', "debug_str")
                                ELSE @,
                  !.debug_line_str = IF do_line_str
                                     THEN edit_dwarf2_any_str(dso_strings,
                                                              "debug_line_str")
                                     ELSE @]
     /\ elf' = [elf EXCEPT !.dirty = @ \cup (IF do_str THEN {"debug_str"} ELSE {})
                                       \cup (IF do_line_str
                                             THEN {"debug_line_str"} ELSE {})]
  /\ phase' = phase + 1
  /\ pc' = "phase"
  /\ UNCHANGED <<cfg, call, list_file, disk, run, out1, shdr, need, lines, cus,
                 walk, edit_dwarf2_ret, build_id, diag, stdout, exit_code,
                 written>>

\* edit_dwarf2 after the phase loop: dirty_section for what was rewritten,
\* update_str_offsets when .debug_str was rebuilt and there is a
\* .debug_str_offsets section (the sections have no relocations to flush),
\* return 0.
edit_dwarf2_post ==
  /\ pc = "post"
  /\ LET info == AnyNeed
         line == need.need_stmt_update \/ need.need_line_strp_update
         macro == need.need_strp_update \/ need.need_stmt_update
         str_offsets == need.need_strp_update /\ debug_str_offsets # <<>>
         Updated(r) ==
           /\ scn' = [scn EXCEPT !.debug_str_offsets = r.sec]
           /\ diag' = diag \o r.msg
     IN
     /\ elf' = [elf EXCEPT !.dirty = @ \cup (IF info THEN {"debug_info"} ELSE {})
                                       \cup (IF line THEN {"debug_line"} ELSE {})
                                       \cup (IF macro /\ debug_macro # <<>>
                                             THEN {"debug_macro"} ELSE {})
                                       \cup (IF str_offsets
                                             THEN {"debug_str_offsets"}
                                             ELSE {})]
     /\ need' = [need EXCEPT !.dirty_elf = @ \/ info \/ line \/ macro]
     /\ IF str_offsets
        THEN Updated(update_str_offsets(debug_str_offsets,
                                        dso_strings.debug_str, 0, <<>>))
        ELSE UNCHANGED <<scn, diag>>
  /\ edit_dwarf2_ret' = 0
  /\ pc' = "tail"
  /\ UNCHANGED <<cfg, call, list_file, disk, run, out1, shdr, lines, dso_strings, cus,
                 phase, walk, build_id, stdout, exit_code, written>>

(***************************************************************************)
(* 4.H ELF layout, build ID and the write                                  *)
(***************************************************************************)

\* The sections of the object in section header order.  The note section
\* is allocated (SHF_ALLOC, SHT_NOTE, 4-byte aligned) and so is .eh_frame,
\* which follows the debug sections as in a compiler's output; the debug
\* sections are not allocated and byte aligned; .rela.debug_line and
\* .rel.debug_line, the relocation sections of .debug_line, are not
\* allocated and 8-byte aligned.  A section of size 0 in dso->shdr is not in
\* the object.
SecOrder ==
  <<"note", "debug_info", "debug_abbrev", "debug_line", "debug_str",
    "debug_line_str", "debug_str_offsets", "debug_macro", "rela_debug_line",
    "rel_debug_line", "eh_frame">>

SecNames == {SecOrder[k] : k \in 1..Len(SecOrder)}

HasScn(n) == shdr[n].sh_size > 0
SHF_ALLOC(n) == n \in {"note", "eh_frame"}
sh_addralign(n) ==
  IF SHF_ALLOC(n) THEN 4
  ELSE IF n \in {"rela_debug_line", "rel_debug_line"} THEN 8 ELSE 1

\* sizeof (Elf64_Ehdr), gelf_fsize (elf, ELF_T_PHDR, 1, EV_CURRENT) and
\* gelf_fsize (elf, ELF_T_OFF, 1, EV_CURRENT) of an ELF64 object.
EhdrSize == 64
PhdrSize == 56
OffSize == 8

e_phoff == EhdrSize

AlignUp(x, a) == ((x + a - 1) \div a) * a

\* A search for the last allocated section that finds none.
last_allocated_none(sh, k, last_offset) == last_offset

\* main, "First find the last allocated section": the end of the last
\* allocated section from section k on, or last_offset.
RECURSIVE last_allocated(_, _, _)
last_allocated(sh, k, last_offset) ==
  IF k > Len(SecOrder) THEN last_offset
  ELSE LET n == SecOrder[k]
           off == sh[n].sh_offset + sh[n].sh_size
       IN last_allocated(sh, k + 1,
            IF HasScn(n) /\ SHF_ALLOC(n) /\ last_offset < off
            THEN off ELSE last_offset)

\* A reflow that places every section, allocated or not.
RECURSIVE adjust_all(_, _, _, _)
adjust_all(E, S, k, last_offset) ==
  IF k > Len(SecOrder)
  THEN [E EXCEPT !.e_shoff = AlignUp(last_offset, OffSize)]
  ELSE IF HasScn(SecOrder[k])
  THEN adjust_all([E EXCEPT !.shdr[SecOrder[k]] =
                     [sh_offset |-> AlignUp(last_offset,
                                            sh_addralign(SecOrder[k])),
                      sh_size |-> Len(S[SecOrder[k]])],
                            !.dirty = @ \cup {SecOrder[k]}],
                  S, k + 1,
                  AlignUp(last_offset, sh_addralign(SecOrder[k]))
                    + Len(S[SecOrder[k]]))
  ELSE adjust_all(E, S, k + 1, last_offset)

\* main, "Now adjust any sizes and offsets for the unallocated sections":
\* E is libelf's view (shdr, e_shoff, dirty), S the section payloads.
RECURSIVE adjust_unallocated(_, _, _, _)
adjust_unallocated(E, S, k, last_offset) ==
  IF k > Len(SecOrder)
  THEN [E EXCEPT !.e_shoff = AlignUp(last_offset, OffSize)]
  ELSE LET n == SecOrder[k]
           sec_size == IF n \in {"debug_str", "debug_line_str", "debug_line"}
                       THEN Len(S[n]) ELSE E.shdr[n].sh_size
           sec_offset == AlignUp(last_offset, sh_addralign(n))
           moved == E.shdr[n].sh_offset # sec_offset
           E2 == [E EXCEPT !.shdr[n] = [sh_offset |-> sec_offset,
                                        sh_size |-> sec_size],
                           !.dirty = IF moved THEN @ \cup {n} ELSE @]
       IN IF HasScn(n) /\ ~SHF_ALLOC(n)
          THEN adjust_unallocated(E2, S, k + 1, sec_offset + sec_size)
          ELSE adjust_unallocated(E, S, k + 1, last_offset)

\* main, the block "if (dso->phnum != 0 && need_update)".
reflow(E, S) ==
  adjust_unallocated(E, S, 1,
    last_allocated(E.shdr, 1, e_phoff + phnum * PhdrSize))

\* elf_update (dso->elf, ELF_C_NULL) without ELF_F_LAYOUT: libelf lays the
\* sections out one after the other with the sizes of their payloads.
RECURSIVE elf_layout(_, _, _, _)
elf_layout(E, S, k, last_offset) ==
  IF k > Len(SecOrder)
  THEN [E EXCEPT !.e_shoff = AlignUp(last_offset, OffSize)]
  ELSE LET n == SecOrder[k]
           sec_offset == AlignUp(last_offset, sh_addralign(n))
           changed == E.shdr[n] # [sh_offset |-> sec_offset,
                                   sh_size |-> Len(S[n])]
           E2 == [E EXCEPT !.shdr[n] = [sh_offset |-> sec_offset,
                                        sh_size |-> Len(S[n])],
                           !.dirty = IF changed THEN @ \cup {n} ELSE @]
       IN IF HasScn(n)
          THEN elf_layout(E2, S, k + 1, sec_offset + Len(S[n]))
          ELSE elf_layout(E, S, k + 1, last_offset)

\* main from the end of the section loop to elf_update (ELF_C_NULL): no
\* section is compressed, so need_update is what edit_dwarf2 flagged.
main_layout ==
  /\ pc = "tail"
  /\ LET need_update == need.need_strp_update \/ need.need_line_strp_update
                        \/ need.need_stmt_update
         E1 == IF phnum # 0 /\ need_update THEN reflow(elf, scn) ELSE elf
     IN elf' = IF phnum # 0 THEN E1 ELSE elf_layout(E1, scn, 1, EhdrSize)
  /\ pc' = "build_id"
  /\ UNCHANGED <<cfg, call, list_file, disk, run, out1, scn, shdr, need, lines, dso_strings,
                 cus, phase, walk, edit_dwarf2_ret, build_id, diag, stdout,
                 exit_code, written>>

\* A digest of the bytes lo..hi of buf, by halves.
RECURSIVE XXH3_accumulate(_, _, _)
XXH3_accumulate(buf, lo, hi) ==
  IF lo > hi THEN 1
  ELSE IF lo = hi THEN buf[lo] + 2
  ELSE (XXH3_accumulate(buf, lo, (lo + hi) \div 2) * 131
        + XXH3_accumulate(buf, (lo + hi) \div 2 + 1, hi) * 31 + 7) % 999983

\* XXH3_128bits_update: the hash state after absorbing input.  A small
\* deterministic stand-in for the xxhash library: what matters to the
\* program is that equal input gives equal state.
XXH3_128bits_update(state, input) ==
  (state * 131 + XXH3_accumulate(input, 1, Len(input)) + 1) % 999983

\* XXH3_128bits_digest and XXH128_canonicalFromHash: the 16 bytes of the
\* digest.
XXH128_canonicalFromHash(state) ==
  [i \in 1..16 |-> ((state + 1) * (2 * i + 1)) % 256]

\* handle_build_id, the loop over the section headers: each section of the
\* object feeds dso->shdr[i] with sh_offset zeroed (of which only sh_size
\* can differ between two objects of this shape) and then its payload.
RECURSIVE hash_sections(_, _, _)
hash_sections(state, S, k) ==
  IF k > Len(SecOrder) THEN state
  ELSE LET n == SecOrder[k]
           st1 == XXH3_128bits_update(state, <<shdr[n].sh_size>>)
           st2 == XXH3_128bits_update(st1, S[n])
       IN hash_sections(IF HasScn(n) THEN st2 ELSE state, S, k + 1)

MIN(a, b) == IF a < b THEN a ELSE b

\* handle_build_id, the recomputation: the note payload with the first
\* MIN (build_id_size, 16) bytes of the ID replaced by the digest of the
\* seed, the program headers and the sections (the ID bytes zeroed).
recompute_build_id(S, seed, offset, size) ==
  LET n == MIN(size, 16)
      zeroed == [S EXCEPT !.note = Splice(@, offset, Fill(0, n))]
      st0 == IF seed # NULLP THEN XXH3_128bits_update(0, seed) ELSE 0
      st1 == XXH3_128bits_update(st0, [i \in 1..phnum |-> i])
      result_canon == XXH128_canonicalFromHash(hash_sections(st1, zeroed, 1))
  IN Splice(zeroed.note, offset, SubSeq(result_canon, 1, n))

\* Upper case digits, as "%02X" would print them.
HEX ==
  <<"0", "1", "2", "3", "4", "5", "6", "7", "8", "9", "A", "B", "C", "D",
    "E", "F">>

\* The digits of printf ("%02" PRIx8, ...).
hex ==
  <<"0", "1", "2", "3", "4", "5", "6", "7", "8", "9", "a", "b", "c", "d",
    "e", "f">>

\* handle_build_id, the print label: two hex digits per ID byte and a
\* newline.
RECURSIVE print_build_id(_, _, _)
print_build_id(buf, id, blen) ==
  IF blen = 0 THEN <<"\n">>
  ELSE LET i == ByteAt(buf, id)
       IN <<hex[((i \div 16) % 16) + 1], hex[(i % 16) + 1]>>
          \o print_build_id(buf, id + 1, blen - 1)

\* main, "if (do_build_id && build_id != NULL) handle_build_id (...)".
main_build_id ==
  /\ pc = "build_id"
  /\ LET Handle(skip, note) ==
           /\ scn' = [scn EXCEPT !.note = note]
           /\ elf' = IF skip THEN elf
                     ELSE [elf EXCEPT !.dirty = @ \cup {"note"}]
           /\ stdout' = stdout \o print_build_id(note, build_id.offset,
                                                 build_id.size)
           /\ pc' = "write"
           /\ UNCHANGED <<diag, exit_code>>
         Recompute(skip) ==
           Handle(skip,
                  IF skip THEN scn.note
                  ELSE recompute_build_id(scn, opt.build_id_seed,
                                          build_id.offset, build_id.size))
     IN
     IF ~(opt.do_build_id /\ build_id.found)
     THEN /\ pc' = "write"
          /\ UNCHANGED <<scn, elf, diag, stdout, exit_code>>
     ELSE IF build_id.size <= 0
     THEN /\ diag' = Append(diag, "Cannot handle 0-byte build ID")
          /\ exit_code' = 1
          /\ pc' = "done"
          /\ UNCHANGED <<scn, elf, stdout>>
     ELSE Recompute(opt.no_recompute_build_id
                    \/ (~need.dirty_elf /\ opt.build_id_seed = NULLP))
  /\ UNCHANGED <<cfg, call, list_file, disk, run, out1, shdr, need, lines, dso_strings, cus,
                 phase, walk, edit_dwarf2_ret, build_id, written>>

\* elf_update (dso->elf, ELF_C_WRITE): the payloads flagged dirty and the
\* section headers reach the file.
elf_update_write(D, E, S) ==
  [data |-> [n \in SecNames |-> IF n \in E.dirty THEN S[n] ELSE D.data[n]],
   shdr |-> E.shdr,
   e_shoff |-> E.e_shoff]

\* main from "If we have done any string replacement ..." to "return 0".
main_write ==
  /\ pc = "write"
  /\ LET do_write == need.need_string_replacement \/ need.need_strp_update
                     \/ need.need_line_strp_update \/ need.need_stmt_update
                     \/ need.dirty_elf
                     \/ (build_id.found /\ ~opt.no_recompute_build_id)
     IN IF do_write
        THEN /\ disk' = elf_update_write(disk, elf, scn)
             /\ written' = written + 1
        ELSE UNCHANGED <<disk, written>>
  /\ exit_code' = 0
  /\ pc' = "done"
  /\ UNCHANGED <<cfg, call, list_file, run, out1, scn, shdr, elf, need, lines, dso_strings,
                 cus, phase, walk, edit_dwarf2_ret, build_id, diag, stdout>>

(***************************************************************************)
(* The program state after start-up, and a second run on the output        *)
(***************************************************************************)

NoNeed ==
  [need_strp_update |-> FALSE, need_line_strp_update |-> FALSE,
   need_string_replacement |-> FALSE, need_stmt_update |-> FALSE,
   dirty_elf |-> FALSE]

NoLines == [table |-> <<>>, debug_lines_len |-> 0, line_buf |-> <<>>]

NoStrings == [debug_str |-> setup_strings, debug_line_str |-> setup_strings]

NoBuildId == [found |-> FALSE, offset |-> 0, size |-> 0]

\* No utility call is under way.
NoCall == [fn |-> "none"]

\* fdopen_dso on the file D: the payloads, the cached section headers and
\* libelf's own headers all describe the file.
fdopen_dso(D) ==
  [scn |-> D.data, shdr |-> D.shdr,
   elf |-> [shdr |-> D.shdr, e_shoff |-> D.e_shoff, dirty |-> {}]]

\* The static state of a fresh process on the file D.
Started(D) ==
  /\ scn = fdopen_dso(D).scn
  /\ shdr = fdopen_dso(D).shdr
  /\ elf = fdopen_dso(D).elf
  /\ need = NoNeed
  /\ lines = NoLines
  /\ dso_strings = NoStrings
  /\ cus = <<>>
  /\ phase = 0
  /\ walk = NoWalk
  /\ edit_dwarf2_ret = -1
  /\ build_id = NoBuildId
  /\ diag = <<>>
  /\ stdout = <<>>
  /\ exit_code = -1
  /\ written = 0
  /\ pc = "main"

\* How many times the tool is run on the file.
MaxRuns == 2

\* The tool is run again, with the same options, on the file the previous
\* run left behind.
rerun ==
  /\ pc = "done"
  /\ exit_code = 0
  /\ opt.do_build_id
  /\ run < MaxRuns
  /\ run' = run + 1
  /\ out1' = [disk |-> disk, stdout |-> stdout, written |-> written]
  /\ scn' = fdopen_dso(disk).scn
  /\ shdr' = fdopen_dso(disk).shdr
  /\ elf' = fdopen_dso(disk).elf
  /\ need' = NoNeed
  /\ lines' = NoLines
  /\ dso_strings' = NoStrings
  /\ cus' = <<>>
  /\ phase' = 0
  /\ walk' = NoWalk
  /\ edit_dwarf2_ret' = -1
  /\ build_id' = NoBuildId
  /\ diag' = <<>>
  /\ stdout' = <<>>
  /\ exit_code' = -1
  /\ written' = 0
  /\ pc' = "main"
  /\ UNCHANGED <<cfg, call, list_file, disk>>

(***************************************************************************)
(* The objects the tool is run on, built byte by byte in the layout the    *)
(* readers above parse                                                     *)
(***************************************************************************)

Enc16(e, v) ==
  IF e = "ELFDATA2LSB" THEN dwarf2_write_le16(v) ELSE dwarf2_write_be16(v)

Enc32(e, v) ==
  IF e = "ELFDATA2LSB" THEN dwarf2_write_le32(v) ELSE dwarf2_write_be32(v)

RECURSIVE Concat(_)
Concat(seqs) == IF seqs = <<>> THEN <<>> ELSE Head(seqs) \o Concat(Tail(seqs))

\* The strings of a pool or table, each NUL-terminated.
RECURSIVE CStrings(_)
CStrings(strs) ==
  IF strs = <<>> THEN <<>> ELSE Head(strs) \o <<0>> \o CStrings(Tail(strs))

\* One .debug_abbrev declaration as read_abbrev parses it: code, tag,
\* children flag, (attribute, form) pairs, and the 0, 0 pair.
AbbrevDecl(code, tag, children, attrs) ==
  <<code, tag, children>> \o attrs \o <<0, 0>>

\* An abbreviation table: its declarations and the closing 0 code.
AbbrevTable(decls) == Concat(decls) \o <<0>>

\* A unit of .debug_info as edit_info parses its header, with the DIE bytes
\* body; unit_length is given its true value.
Unit(e, version, unit_type, ptr_size, abbrev_off, body) ==
  LET hdr == IF version >= 5
             THEN Enc16(e, version) \o <<unit_type, ptr_size>>
                  \o Enc32(e, abbrev_off)
             ELSE Enc16(e, version) \o Enc32(e, abbrev_off) \o <<ptr_size>>
  IN Enc32(e, Len(hdr) + Len(body)) \o hdr \o body

\* One file entry of a version 2-4 file table: the name and the raw
\* ULEB128 bytes of its directory index, time and length.
FileEntry(name, dir, time, len) == name \o <<0>> \o dir \o time \o len

\* A version 2-4 line table as get_line_table and read_dwarf4_line parse
\* it: opcode_base is 2 (one standard opcode length), program the bytes of
\* the line number program.
LineTable(e, version, dirs, files, program) ==
  LET tables == <<1>> \o CStrings(dirs) \o <<0>> \o Concat(files) \o <<0>>
      fields == <<1>> \o (IF version >= 4 THEN <<1>> ELSE <<>>)
                \o <<1, 251, 14, 2>>
      after == fields \o tables
      rest == Enc16(e, version) \o Enc32(e, Len(after)) \o after \o program
  IN Enc32(e, Len(rest)) \o rest

\* An allocated note section holding one GNU build-ID note with the
\* descriptor desc.
BuildIdNote(e, desc) ==
  Enc32(e, Len(GNU)) \o Enc32(e, Len(desc)) \o Enc32(e, NT_GNU_BUILD_ID)
  \o GNU \o desc \o Fill(0, Align4(Len(desc)) - Len(desc))

\* The section headers of a file whose sections follow the ELF header and
\* the program headers one after the other.
RECURSIVE FileLayout(_, _, _, _)
FileLayout(data, sh, k, last_offset) ==
  IF k > Len(SecOrder)
  THEN [data |-> data, shdr |-> sh, e_shoff |-> AlignUp(last_offset, OffSize)]
  ELSE LET n == SecOrder[k]
           off == AlignUp(last_offset, sh_addralign(n))
       IN IF data[n] = <<>>
          THEN FileLayout(data, sh, k + 1, last_offset)
          ELSE FileLayout(data,
                 [sh EXCEPT ![n] = [sh_offset |-> off, sh_size |-> Len(data[n])]],
                 k + 1, off + Len(data[n]))

ElfFile(data, ph) ==
  FileLayout(data, [n \in SecNames |-> [sh_offset |-> 0, sh_size |-> 0]], 1,
             e_phoff + ph * PhdrSize)

NoSections == [n \in SecNames |-> <<>>]

\* The option sets: no build-ID option, -i, -i -s seed, -i -n.
NoOpt ==
  [do_build_id |-> FALSE, no_recompute_build_id |-> FALSE,
   build_id_seed |-> NULLP]

OptI == [NoOpt EXCEPT !.do_build_id = TRUE]
OptSeed == [OptI EXCEPT !.build_id_seed = <<115, 49>>]
OptNoRecompute == [OptI EXCEPT !.no_recompute_build_id = TRUE]

\* "/bb", the base directory, and the destination directories.
Dir_bb == <<47, 98, 98>>
Dir_dd == <<47, 100, 100>>
Dir_d == <<47, 100>>
Dir_dddd == <<47, 100, 100, 100, 100>>
Dir_zz == <<47, 122, 122>>

\* The strings of .debug_str: "gcc" at 0, "/bb/x" at 4, "/bb" at 10,
\* "/o/y" at 14 and "/bb/x" once more at 19.
StrPool ==
  CStrings(<<(<<103, 99, 99>>), Dir_bb \o <<47, 120>>, Dir_bb,
             <<47, 111, 47, 121>>, Dir_bb \o <<47, 120>>>>)

\* Abbreviation 1 is a compile unit with producer, name, comp_dir (all
\* strp) and stmt_list (sec_offset) that has children; 2 is a subprogram
\* with a name (strp).
MainAbbrevs ==
  <<AbbrevDecl(1, DW_TAG.compile_unit, 1,
               <<DW_AT.producer, DW_FORM.strp, DW_AT.name, DW_FORM.strp,
                 DW_AT.comp_dir, DW_FORM.strp,
                 DW_AT.stmt_list, DW_FORM.sec_offset>>),
    AbbrevDecl(2, DW_TAG.subprogram, 0, <<DW_AT.name, DW_FORM.strp>>)>>

\* A compile unit DIE of abbreviation 1 with one subprogram child.
MainDies(e, producer, name, comp_dir, stmt_list, sub_name) ==
  <<1>> \o Enc32(e, producer) \o Enc32(e, name) \o Enc32(e, comp_dir)
  \o Enc32(e, stmt_list) \o <<2>> \o Enc32(e, sub_name) \o <<0>>

\* A line table with one directory and one file in it, followed by a two
\* byte line number program.
SimpleTable(e, version, dir, file, uleb) ==
  LineTable(e, version, <<dir>>, <<FileEntry(file, <<1>>, uleb, <<0>>)>>,
            <<0, 1>>)

File_fc == <<102, 46, 99>>

\* Family: the registration order of string offsets.  One unit whose
\* producer, name and comp_dir and whose subprogram's name pick their
\* offsets in .debug_str.
StringObjects ==
  { [base_dir |-> Dir_bb, dest_dir |-> d, opt |-> NoOpt,
     ei_data |-> "ELFDATA2LSB", phnum |-> 1, heap |-> 0,
     data |-> [NoSections EXCEPT
                 !.debug_info =
                   Unit("ELFDATA2LSB", 4, 0, 8, 0,
                        MainDies("ELFDATA2LSB", p, n, c, 0, sn)),
                 !.debug_abbrev = AbbrevTable(MainAbbrevs),
                 !.debug_line =
                   SimpleTable("ELFDATA2LSB", 4, <<47, 111>>, File_fc, <<0>>),
                 !.debug_str = StrPool]] :
    d \in {Dir_bb, Dir_dd, Dir_dddd}, p \in {0, 4}, n \in {4, 14},
    c \in {10, 4}, sn \in {0, 4} }

\* Family: objects none of whose paths lies under the base directory "/zz".
ForeignObjects ==
  { [base_dir |-> Dir_zz, dest_dir |-> d, opt |-> NoOpt,
     ei_data |-> e, phnum |-> 1, heap |-> 0,
     data |-> [NoSections EXCEPT
                 !.debug_info = Unit(e, 4, 0, 8, 0, MainDies(e, 0, 4, 10, 0, 14)),
                 !.debug_abbrev = AbbrevTable(MainAbbrevs),
                 !.debug_line = SimpleTable(e, 4, Dir_bb, File_fc, <<0>>),
                 !.debug_str = StrPool]] :
    d \in {Dir_zz, Dir_dd}, e \in {"ELFDATA2LSB", "ELFDATA2MSB"} }

\* A 20 byte build-ID descriptor, and the note section holding it.
Desc20 == [i \in 1..20 |-> i]

\* .debug_abbrev with MainAbbrevs at 0, a table that declares code 1 twice
\* at 21 and a table with the unknown form 2 at 32.
HeaderAbbrevs ==
  AbbrevTable(MainAbbrevs)
  \o AbbrevTable(<<AbbrevDecl(1, DW_TAG.compile_unit, 0, <<>>),
                   AbbrevDecl(1, DW_TAG.compile_unit, 0, <<>>)>>)
  \o AbbrevTable(<<AbbrevDecl(1, DW_TAG.compile_unit, 0, <<DW_AT.name, 2>>)>>)

\* What is wrong with the second unit of an object.
HeaderDefects ==
  {"none", "v5", "length64", "version6", "version1", "unit_type", "ptr_size",
   "truncated", "abbrev_code", "duplicate", "form", "abbrev_off"}

\* The second unit: a unit none of whose strings lies under "/bb", with
\* the defect k.
SecondUnit(e, k) ==
  LET Make(dies, good) ==
        CASE k = "none" -> good
          [] k = "v5" -> Unit(e, 5, DW_UT.compile, 8, 0, dies)
          [] k = "length64" -> Enc32(e, UINT_MAX) \o SubSeq(good, 5, Len(good))
          [] k = "version6" -> Unit(e, 6, DW_UT.compile, 8, 0, dies)
          [] k = "version1" -> Unit(e, 1, 0, 8, 0, dies)
          [] k = "unit_type" -> Unit(e, 5, 4, 8, 0, dies)
          [] k = "ptr_size" -> Unit(e, 4, 0, 3, 0, dies)
          [] k = "truncated" ->
               Enc32(e, Len(good) + 36) \o SubSeq(good, 5, Len(good))
          [] k = "abbrev_code" -> Unit(e, 4, 0, 8, 0, <<7>> \o Tail(dies))
          [] k = "duplicate" -> Unit(e, 4, 0, 8, 21, dies)
          [] k = "form" -> Unit(e, 4, 0, 8, 32, dies)
          [] k = "abbrev_off" -> Unit(e, 4, 0, 8, 200, dies)
  IN Make(MainDies(e, 0, 14, 14, 0, 0),
          Unit(e, 4, 0, 8, 0, MainDies(e, 0, 14, 14, 0, 0)))

\* Family: two units, the first with comp_dir c, the second with a defect
\* in its header or its first DIE, under each option set.
HeaderObjects ==
  { [base_dir |-> Dir_bb, dest_dir |-> Dir_dd, opt |-> o,
     ei_data |-> "ELFDATA2LSB", phnum |-> ph, heap |-> 0,
     data |-> [NoSections EXCEPT
                 !.note = BuildIdNote("ELFDATA2LSB", Desc20),
                 !.debug_info =
                   Unit("ELFDATA2LSB", 4, 0, 8, 0,
                        MainDies("ELFDATA2LSB", 0, 14, c, 0, 0))
                   \o SecondUnit("ELFDATA2LSB", k),
                 !.debug_abbrev = HeaderAbbrevs,
                 !.debug_line =
                   SimpleTable("ELFDATA2LSB", 4, <<47, 111>>, File_fc, <<0>>),
                 !.debug_str = StrPool]] :
    o \in {NoOpt, OptI, OptSeed, OptNoRecompute}, ph \in {0, 1},
    c \in {10, 14}, k \in HeaderDefects }

\* A build-ID descriptor of n bytes.
Desc(n) == [i \in 1..n |-> 160 + i]

\* Family: one unit with comp_dir c and a build-ID note whose descriptor
\* has n bytes, under each build-ID option set.
BuildIdObjects ==
  { [base_dir |-> Dir_bb, dest_dir |-> d, opt |-> o,
     ei_data |-> "ELFDATA2LSB", phnum |-> ph, heap |-> 0,
     data |-> [NoSections EXCEPT
                 !.note = BuildIdNote("ELFDATA2LSB", Desc(n)),
                 !.debug_info =
                   Unit("ELFDATA2LSB", 4, 0, 8, 0,
                        MainDies("ELFDATA2LSB", 0, 14, c, 0, 0)),
                 !.debug_abbrev = AbbrevTable(MainAbbrevs),
                 !.debug_line =
                   SimpleTable("ELFDATA2LSB", 4, <<47, 111>>, File_fc, <<0>>),
                 !.debug_str = StrPool]] :
    o \in {OptI, OptSeed, OptNoRecompute}, ph \in {0, 1}, c \in {10, 14},
    d \in {Dir_dd, Dir_dddd}, n \in {0, 8, 16, 20} }

\* Family: objects with an allocated .eh_frame section after the debug
\* sections, with and without program headers, whose .debug_str shrinks,
\* grows or stays as it is.
AllocObjects ==
  { [o EXCEPT !.data.eh_frame = <<1, 2, 3, 4, 5, 6, 7, 8>>] :
      o \in {b \in BuildIdObjects : b.opt = OptI} \cup ForeignObjects }

\* The most padding bytes between two line tables.
MaxGap == 1

\* The first line table of an object: directory "/bb/s" under the base
\* directory; file "/bb/f.c" under it, its time a one byte ULEB128; the
\* same with the time 0 spelled in two bytes; the same with the time 2^28,
\* which takes five bytes; no path under it.
FirstTables ==
  { SimpleTable("ELFDATA2LSB", 4, Dir_bb \o <<47, 115>>, File_fc, <<0>>),
    SimpleTable("ELFDATA2LSB", 4, <<47, 111>>, Dir_bb \o <<47>> \o File_fc,
                <<0>>),
    SimpleTable("ELFDATA2LSB", 4, <<47, 111>>, Dir_bb \o <<47>> \o File_fc,
                <<128, 0>>),
    SimpleTable("ELFDATA2LSB", 4, <<47, 111>>, Dir_bb \o <<47>> \o File_fc,
                <<128, 128, 128, 128, 1>>),
    SimpleTable("ELFDATA2LSB", 4, <<47, 111>>, File_fc, <<0>>) }

\* The second line table: directory "/bb", or no path under "/bb".
SecondTables ==
  { SimpleTable("ELFDATA2LSB", 3, Dir_bb, <<103, 46, 99>>, <<0>>),
    SimpleTable("ELFDATA2LSB", 3, <<47, 112>>, <<103, 46, 99>>, <<0>>) }

\* A line table no unit refers to.
SpareTable == SimpleTable("ELFDATA2LSB", 2, Dir_bb, <<104, 46, 99>>, <<0>>)

\* An object with two units and the line section lead, A, g padding bytes,
\* B; refs says which of the tables the units refer to.
LineObject(lead, A, g, B, refs, d) ==
  LET Refs(offA, offB) ==
        CASE refs = "AB" -> <<offA, offB>>
          [] refs = "BA" -> <<offB, offA>>
          [] refs = "AA" -> <<offA, offA>>
          [] refs = "A?" -> <<offA, offB + 1>>
      Object(r) ==
        [base_dir |-> Dir_bb, dest_dir |-> d, opt |-> NoOpt,
         ei_data |-> "ELFDATA2LSB", phnum |-> 1, heap |-> 170,
         data |-> [NoSections EXCEPT
                     !.debug_info =
                       Unit("ELFDATA2LSB", 4, 0, 8, 0,
                            MainDies("ELFDATA2LSB", 0, 14, 14, r[1], 0))
                       \o Unit("ELFDATA2LSB", 4, 0, 8, 0,
                               MainDies("ELFDATA2LSB", 0, 14, 14, r[2], 0)),
                     !.debug_abbrev = AbbrevTable(MainAbbrevs),
                     !.debug_line = lead \o A \o Fill(0, g) \o B,
                     !.debug_str = StrPool]]
  IN Object(Refs(Len(lead), Len(lead) + Len(A) + g))

\* Family: the line tables two units refer to, their order, what lies
\* before and between them, and the length of the destination directory.
LineObjects ==
  { LineObject(lead, A, g, B, refs, d) :
      lead \in {<<>>, SpareTable}, A \in FirstTables, g \in 0..MaxGap,
      B \in SecondTables, refs \in {"AB", "BA", "AA", "A?"},
      d \in {Dir_dd, Dir_d, Dir_dddd} }

\* A line table whose only file names the directory 2 of a directory table
\* with one entry, "/bb": read_dwarf4_line gives up at the file.
WrongDirTable ==
  LineTable("ELFDATA2LSB", 3, <<Dir_bb>>,
            <<FileEntry(<<103, 46, 99>>, <<2>>, <<0>>, <<0>>)>>, <<0, 1>>)

\* Family: two units, one of them with a line table whose file scan fails
\* after its directory was found to need replacing.
WrongDirObjects ==
  { LineObject(<<>>, A, 0, WrongDirTable, refs, d) :
      A \in FirstTables, refs \in {"AB", "BA"}, d \in {Dir_dd, Dir_d} }

\* A 64-bit field of an ELF64 structure holding v.
Enc64(e, v) ==
  IF e = "ELFDATA2LSB" THEN Enc32(e, v) \o Enc32(e, 0)
  ELSE Enc32(e, 0) \o Enc32(e, v)

\* The payload of .rela.debug_line ("rela_debug_line") or .rel.debug_line
\* with one record for each of the offsets: r_offset, r_info 0x10000000a
\* (symbol 1, type 10) and, in a SHT_RELA section, r_addend 0.
LineRels(e, rs, offsets) ==
  Concat([i \in 1..Len(offsets) |->
            Enc64(e, offsets[i]) \o Enc32(e, 10) \o Enc32(e, 1)
            \o (IF rs = "rela_debug_line" THEN Enc64(e, 0) ELSE <<>>)])

\* The offsets the relocations of .debug_line point at when table A lies
\* at 0 and table B after g bytes of padding: the last byte of A and the
\* first of B, in either order; the byte after A; the last byte of B; a
\* byte beyond the end of B.
LineRelOffsets(A, g, B) ==
  { <<Len(A) - 1, Len(A) + g>>, <<Len(A) + g, Len(A) - 1>>, <<Len(A)>>,
    <<Len(A) + g + Len(B) - 1>>, <<Len(A) + g + Len(B) + 1>> }

\* Family: relocatable objects whose .debug_line has relocations.
LineRelObjects ==
  LET Object(o, rs, offsets) ==
        [o EXCEPT !.phnum = 0,
                  !.data[rs] = LineRels("ELFDATA2LSB", rs, offsets)]
      Objects(A, g, B) ==
        { Object(LineObject(<<>>, A, g, B, refs, d), rs, offsets) :
            refs \in {"AB", "BA"}, d \in {Dir_d, Dir_dddd},
            rs \in {"rela_debug_line", "rel_debug_line"},
            offsets \in LineRelOffsets(A, g, B) }
  IN UNION { Objects(A, g, B) :
               A \in { SimpleTable("ELFDATA2LSB", 4, Dir_bb \o <<47, 115>>,
                                   File_fc, <<0>>),
                       SimpleTable("ELFDATA2LSB", 4, <<47, 111>>, File_fc,
                                   <<0>>) },
               g \in 0..MaxGap, B \in SecondTables }

\* Family: objects with program headers, an unallocated 8-byte aligned
\* section after .debug_line (which shrinks, grows or stays as it is) and,
\* in some, an allocated .eh_frame section after the debug sections.
ReflowObjects ==
  { [LineObject(<<>>, A, g, B, "AB", d) EXCEPT
       !.data.rela_debug_line = LineRels("ELFDATA2LSB", "rela_debug_line",
                                         <<Len(A)>>),
       !.data.eh_frame = eh] :
      A \in FirstTables, g \in 0..MaxGap, B \in SecondTables,
      d \in {Dir_d, Dir_dddd}, eh \in {<<>>, <<1, 2, 3, 4, 5, 6, 7, 8>>} }

\* "/build/src", "/u" and "pkg".
Dir_build_src == <<47, 98, 117, 105, 108, 100, 47, 115, 114, 99>>
Dir_u == <<47, 117>>
File_pkg == <<112, 107, 103>>

\* Abbreviation 1 is a compile unit whose comp_dir is an inline string,
\* followed by producer (strp) and stmt_list (sec_offset).
InlineAbbrevs ==
  <<AbbrevDecl(1, DW_TAG.compile_unit, 0,
               <<DW_AT.comp_dir, DW_FORM.string, DW_AT.producer, DW_FORM.strp,
                 DW_AT.stmt_list, DW_FORM.sec_offset>>)>>

\* An object with one unit whose inline comp_dir is the string cd.
InlineObject(b, d, e, cd) ==
  [base_dir |-> b, dest_dir |-> d, opt |-> NoOpt, ei_data |-> e,
   phnum |-> 1, heap |-> 0,
   data |-> [NoSections EXCEPT
               !.debug_info =
                 Unit(e, 4, 0, 8, 0,
                      <<1>> \o cd \o <<0>> \o Enc32(e, 0) \o Enc32(e, 0)),
               !.debug_abbrev = AbbrevTable(InlineAbbrevs),
               !.debug_line = SimpleTable(e, 4, <<47, 111>>, File_fc, <<0>>),
               !.debug_str = StrPool]]

\* Family: inline comp_dir strings under and not under the base directory,
\* with destination directories shorter and longer than it.
InlineObjects ==
  { InlineObject(Dir_bb, d, e, cd) :
      d \in {Dir_d, Dir_dd, Dir_dddd},
      e \in {"ELFDATA2LSB", "ELFDATA2MSB"},
      cd \in {Dir_bb \o <<47>> \o File_pkg, Dir_bb,
              Dir_bb \o <<47, 47>> \o File_pkg, Dir_bb \o <<120, 47, 112>>} }
  \cup { InlineObject(Dir_build_src, Dir_u, e,
                      Dir_build_src \o <<47>> \o File_pkg) :
           e \in {"ELFDATA2LSB", "ELFDATA2MSB"} }

\* Abbreviation 1 is a compile unit whose name and comp_dir are of
\* DW_FORM_indirect, followed by stmt_list (sec_offset).
IndirectAbbrevs ==
  <<AbbrevDecl(1, DW_TAG.compile_unit, 0,
               <<DW_AT.name, DW_FORM.indirect, DW_AT.comp_dir, DW_FORM.indirect,
                 DW_AT.stmt_list, DW_FORM.sec_offset>>)>>

\* The values of an indirect attribute that stands for the string at idx
\* of .debug_str: the actual form strp; DW_FORM_indirect and then strp;
\* DW_FORM_indirect twice and then strp.
IndirectValues(e, idx) ==
  { <<DW_FORM.strp>> \o Enc32(e, idx),
    <<DW_FORM.indirect, DW_FORM.strp>> \o Enc32(e, idx),
    <<DW_FORM.indirect, DW_FORM.indirect, DW_FORM.strp>> \o Enc32(e, idx) }

\* Family: one unit whose name and comp_dir give their forms in the DIE.
IndirectObjects ==
  LET Objects(e) ==
        { [base_dir |-> Dir_bb, dest_dir |-> d, opt |-> NoOpt, ei_data |-> e,
           phnum |-> 1, heap |-> 0,
           data |-> [NoSections EXCEPT
                       !.debug_info =
                         Unit(e, 4, 0, 8, 0, <<1>> \o n \o c \o Enc32(e, 0)),
                       !.debug_abbrev = AbbrevTable(IndirectAbbrevs),
                       !.debug_line =
                         SimpleTable(e, 4, <<47, 111>>, File_fc, <<0>>),
                       !.debug_str = StrPool]] :
          d \in {Dir_dd, Dir_dddd},
          n \in IndirectValues(e, 4)
                \cup {<<DW_FORM.string>> \o Dir_bb \o <<47, 120, 0>>},
          c \in IndirectValues(e, 10)
                \cup {<<DW_FORM.string>> \o Dir_bb \o <<47, 115, 0>>} }
  IN Objects("ELFDATA2LSB") \cup Objects("ELFDATA2MSB")

\* A .debug_str_offsets index table: unit_length, version, padding and the
\* 4-byte entries.
StrOffsetsTable(e, version, padding, entries) ==
  LET RECURSIVE Body(_)
      Body(es) == IF es = <<>> THEN <<>> ELSE Enc32(e, Head(es)) \o Body(Tail(es))
  IN Enc32(e, 4 + 4 * Len(entries)) \o Enc16(e, version) \o Enc16(e, padding)
     \o Body(entries)

\* The index tables of the objects: one table over the five strings of
\* StrPool, two tables, a table of version 4, one with padding, and one
\* table followed by a table of version 4.
StrOffsetsTables(e) ==
  { StrOffsetsTable(e, 5, 0, <<0, 4, 10, 14, 19>>),
    StrOffsetsTable(e, 5, 0, <<19, 4>>) \o StrOffsetsTable(e, 5, 0, <<14, 0>>),
    StrOffsetsTable(e, 4, 0, <<0, 4>>),
    StrOffsetsTable(e, 5, 1, <<0, 4>>),
    StrOffsetsTable(e, 5, 0, <<10, 19>>) \o StrOffsetsTable(e, 4, 0, <<0, 4>>) }

\* Family: objects with a .debug_str_offsets section whose entries are not
\* all reached from the unit, which registers the offsets 0, 4, 0 and its
\* comp_dir.
StrOffsetsObjects ==
  { [base_dir |-> Dir_bb, dest_dir |-> d, opt |-> NoOpt,
     ei_data |-> e, phnum |-> 1, heap |-> 0,
     data |-> [NoSections EXCEPT
                 !.debug_info = Unit(e, 4, 0, 8, 0, MainDies(e, 0, 4, c, 0, 0)),
                 !.debug_abbrev = AbbrevTable(MainAbbrevs),
                 !.debug_line = SimpleTable(e, 4, <<47, 111>>, File_fc, <<0>>),
                 !.debug_str = StrPool,
                 !.debug_str_offsets = t]] :
    d \in {Dir_bb, Dir_dd, Dir_dddd}, e \in {"ELFDATA2LSB", "ELFDATA2MSB"},
    c \in {10, 14}, t \in StrOffsetsTables("ELFDATA2LSB")
                          \cup StrOffsetsTables("ELFDATA2MSB") }

\* The file entries of the listed tables, the directories being "/bb/s" (1)
\* and "/o" (2): "/bb/f.c", "f.c" in 1, "g.c" in the current directory,
\* "/o/g.c", "g.c" in 2, "/dd/k.c", "/bb/../o/g.c", and "x.c" in a
\* directory that is not there.
ListFiles ==
  { FileEntry(Dir_bb \o <<47>> \o File_fc, <<0>>, <<0>>, <<0>>),
    FileEntry(File_fc, <<1>>, <<0>>, <<0>>),
    FileEntry(<<103, 46, 99>>, <<0>>, <<0>>, <<0>>),
    FileEntry(<<47, 111, 47, 103, 46, 99>>, <<0>>, <<0>>, <<0>>),
    FileEntry(<<103, 46, 99>>, <<2>>, <<0>>, <<0>>),
    FileEntry(Dir_dd \o <<47, 107, 46, 99>>, <<0>>, <<0>>, <<0>>),
    FileEntry(Dir_bb \o <<47, 46, 46, 47, 111, 47, 103, 46, 99>>, <<0>>,
              <<0>>, <<0>>),
    FileEntry(<<120, 46, 99>>, <<3>>, <<0>>, <<0>>) }

\* Family: runs with a list file on a unit with comp_dir c and a line table
\* of two files, with and without a destination directory.
ListObjects ==
  { [base_dir |-> Dir_bb, dest_dir |-> d, opt |-> NoOpt, list_file_fd |-> 3,
     ei_data |-> "ELFDATA2LSB", phnum |-> 1, heap |-> 0,
     data |-> [NoSections EXCEPT
                 !.debug_info =
                   Unit("ELFDATA2LSB", 4, 0, 8, 0,
                        MainDies("ELFDATA2LSB", 0, 0, c, 0, 0)),
                 !.debug_abbrev = AbbrevTable(MainAbbrevs),
                 !.debug_line =
                   LineTable("ELFDATA2LSB", 4,
                             <<Dir_bb \o <<47, 115>>, (<<47, 111>>)>>,
                             <<f1, f2>>, <<0, 1>>),
                 !.debug_str = StrPool]] :
    d \in {Dir_dd, NULLP}, c \in {4, 10, 14},
    f1 \in ListFiles, f2 \in ListFiles }

\* The .debug_macro sections of the objects: a version 4 unit with a line
\* offset lo and define_indirect of the string at idx, define, start_file
\* and end_file; a version 5 unit with undef_indirect and then a version 4
\* unit with a line offset and transparent_include; a unit with
\* define_strx of index 1; units with an unknown operation, of version 3,
\* and with the flag for 8 byte offsets.
MacroSections(e, lo, idx) ==
  { Enc16(e, 4) \o <<2>> \o Enc32(e, lo)
      \o <<DW_MACRO.define_indirect, 1>> \o Enc32(e, idx)
      \o <<DW_MACRO.define, 1, 97, 0, DW_MACRO.start_file, 1, 1,
           DW_MACRO.end_file, 0>>,
    Enc16(e, 5) \o <<0, DW_MACRO.undef_indirect, 1>> \o Enc32(e, idx) \o <<0>>
      \o Enc16(e, 4) \o <<2>> \o Enc32(e, lo)
      \o <<DW_MACRO.transparent_include>> \o Enc32(e, 0) \o <<0>>,
    Enc16(e, 5) \o <<0, DW_MACRO.define_strx, 1, 1, 0>>,
    Enc16(e, 4) \o <<0, 9, 0>>,
    Enc16(e, 3) \o <<0, 0>>,
    Enc16(e, 4) \o <<1, 0>> }

\* A version 5 line table as get_line_table and read_dwarf5_line parse it:
\* one directory, a path of form dir_form at the offset dir_idx of its
\* pool, and one file in that directory, a path of form file_form at
\* file_idx; followed by a two byte line number program.
Line5Table(e, dir_form, dir_idx, file_form, file_idx) ==
  LET after == <<1, 1, 1, 251, 14, 2, 1>>
               \o <<1, DW_LNCT.path, dir_form, 1>> \o Enc32(e, dir_idx)
               \o <<2, DW_LNCT.path, file_form, DW_LNCT.directory_index,
                    DW_FORM.udata, 1>> \o Enc32(e, file_idx) \o <<0>>
      rest == Enc16(e, 5) \o <<8, 0>> \o Enc32(e, Len(after)) \o after
              \o <<0, 1>>
  IN Enc32(e, Len(rest)) \o rest

\* Family: a unit with comp_dir c whose line table is of version 5, with
\* the directory "/bb", and a .debug_macro unit that defines a macro with
\* the string at idx.  With the comp_dir "/o/y" no string of .debug_info
\* is under the base directory.
Line5Objects ==
  { [base_dir |-> Dir_bb, dest_dir |-> d, opt |-> NoOpt,
     list_file_fd |-> lf,
     ei_data |-> e, phnum |-> 1, heap |-> 0,
     data |-> [NoSections EXCEPT
                 !.debug_info = Unit(e, 4, 0, 8, 0, MainDies(e, 0, 14, c, 0, 0)),
                 !.debug_abbrev = AbbrevTable(MainAbbrevs),
                 !.debug_line = Line5Table(e, f, 10, f, fi),
                 !.debug_str = StrPool,
                 !.debug_line_str = StrPool,
                 !.debug_macro =
                   Enc16(e, 4) \o <<0, DW_MACRO.define_indirect, 1>>
                   \o Enc32(e, idx) \o <<0>>]] :
    d \in {Dir_dd, Dir_dddd}, e \in {"ELFDATA2LSB", "ELFDATA2MSB"},
    lf \in {-1, 3}, c \in {10, 14},
    f \in {DW_FORM.strp, DW_FORM.line_strp}, fi \in {4, 19},
    idx \in {14, 19} }

\* Family: two units and the line tables A, with the directory "/o", and
\* B, with the directory dirB, which the units refer to in the order refs;
\* the comp_dir of the first unit is c, and the .debug_macro unit has the
\* line offset of A or of B.
MacroLineObjects ==
  LET Object(e, d, c, A, B, refs, first) ==
        [base_dir |-> Dir_bb, dest_dir |-> d, opt |-> NoOpt,
         ei_data |-> e, phnum |-> 1, heap |-> 170,
         data |-> [NoSections EXCEPT
                     !.debug_info =
                       Unit(e, 4, 0, 8, 0,
                            MainDies(e, 0, 4, c,
                                     IF refs = "AB" THEN 0 ELSE Len(A), 0))
                       \o Unit(e, 4, 0, 8, 0,
                               MainDies(e, 0, 14, 14,
                                        IF refs = "AB" THEN Len(A) ELSE 0, 0)),
                     !.debug_abbrev = AbbrevTable(MainAbbrevs),
                     !.debug_line = A \o B,
                     !.debug_str = StrPool,
                     !.debug_macro =
                       Enc16(e, 4) \o <<2>>
                       \o Enc32(e, IF first THEN 0 ELSE Len(A))
                       \o <<DW_MACRO.define, 1, 97, 0, 0>>]]
  IN { Object(e, d, c, SimpleTable(e, 4, <<47, 111>>, File_fc, <<0>>),
              SimpleTable(e, 3, dirB, <<103, 46, 99>>, <<0>>), refs, first) :
         e \in {"ELFDATA2LSB", "ELFDATA2MSB"}, d \in {Dir_dd, Dir_dddd},
         c \in {10, 14}, dirB \in {<<47, 111>>, Dir_bb \o <<47, 115>>},
         refs \in {"AB", "BA"}, first \in BOOLEAN }

\* The abbreviation of a compile unit that has a comp_dir, a
\* DW_AT_str_offsets_base and a DW_AT_macros.
MacroCuAbbrevs ==
  <<AbbrevDecl(1, DW_TAG.compile_unit, 0,
               <<DW_AT.comp_dir, DW_FORM.strp,
                 DW_AT.str_offsets_base, DW_FORM.sec_offset,
                 DW_AT.macros, DW_FORM.sec_offset>>)>>

\* A version 5 compile unit of MacroCuAbbrevs.
MacroCu(e, comp_dir, str_offsets_base, macros) ==
  Unit(e, 5, DW_UT.compile, 8, 0,
       <<1>> \o Enc32(e, comp_dir) \o Enc32(e, str_offsets_base)
       \o Enc32(e, macros))

\* Family: objects of two compile units with the index table bases 8 and
\* 20 and the DW_AT_macros m1 and m2, and a .debug_macro section of one
\* unit at offset 0 that defines a macro with DW_MACRO_define_strx 1,
\* which is the string at 14 through the base 8 and the string at 19
\* through the base 20.
MacroCuObjects ==
  { [base_dir |-> Dir_bb, dest_dir |-> d, opt |-> NoOpt,
     ei_data |-> e, phnum |-> 1, heap |-> 8,
     data |-> [NoSections EXCEPT
                 !.debug_info = MacroCu(e, 10, 8, m[1]) \o MacroCu(e, 10, 20, m[2]),
                 !.debug_abbrev = AbbrevTable(MacroCuAbbrevs),
                 !.debug_str = StrPool,
                 !.debug_str_offsets =
                   StrOffsetsTable(e, 5, 0, <<0, 14, 10, 14, 19>>),
                 !.debug_macro =
                   Enc16(e, 5) \o <<0, DW_MACRO.define_strx, 1, 1, 0>>]] :
    d \in {Dir_dd, Dir_dddd}, e \in {"ELFDATA2LSB", "ELFDATA2MSB"},
    m \in {<<0, 50>>, <<50, 0>>, <<50, 60>>, <<0, 0>>} }

\* Family: objects with a .debug_macro section, and a .debug_str_offsets
\* section for define_strx, whose unit has comp_dir c; malloc memory
\* holds the byte heap.
MacroObjects ==
  { [base_dir |-> Dir_bb, dest_dir |-> d, opt |-> NoOpt,
     ei_data |-> e, phnum |-> 1, heap |-> h,
     data |-> [NoSections EXCEPT
                 !.debug_info = Unit(e, 4, 0, 8, 0, MainDies(e, 0, 4, c, 0, 0)),
                 !.debug_abbrev = AbbrevTable(MainAbbrevs),
                 !.debug_line = SimpleTable(e, 4, dir, File_fc, <<0>>),
                 !.debug_str = StrPool,
                 !.debug_str_offsets =
                   StrOffsetsTable(e, 5, 0, <<0, 14, 10, 14, 19>>),
                 !.debug_macro = m]] :
    d \in {Dir_dd, Dir_dddd}, e \in {"ELFDATA2LSB", "ELFDATA2MSB"},
    h \in {0, 8}, c \in {10, 14},
    dir \in {Dir_bb \o <<47, 115>>, (<<47, 111>>)},
    m \in UNION {MacroSections(e1, lo, idx) :
                   e1 \in {"ELFDATA2LSB", "ELFDATA2MSB"}, lo \in {0, 6},
                   idx \in {14, 19}} }

Inputs ==
  StringObjects \cup ForeignObjects \cup HeaderObjects \cup BuildIdObjects
  \cup LineObjects \cup InlineObjects \cup AllocObjects \cup StrOffsetsObjects
  \cup ListObjects \cup MacroObjects \cup WrongDirObjects
  \cup IndirectObjects \cup LineRelObjects \cup MacroCuObjects
  \cup Line5Objects \cup MacroLineObjects \cup ReflowObjects

Init ==
  \E in \in Inputs :
    /\ base_dir = in.base_dir
    /\ dest_dir = in.dest_dir
    /\ opt = in.opt
    /\ list_file_fd = (IF "list_file_fd" \in DOMAIN in THEN in.list_file_fd
                       ELSE -1)
    /\ list_file = <<>>
    /\ ei_data = in.ei_data
    /\ phnum = in.phnum
    /\ heap = in.heap
    /\ disk = ElfFile(in.data, in.phnum)
    /\ run = 1
    /\ out1 = [disk |-> disk, stdout |-> <<>>, written |-> 0]
    /\ Started(disk)
    /\ call = NoCall

Next ==
  \/ main_sections
  \/ edit_dwarf2_begin
  \/ edit_dwarf2_phase
  \/ edit_info_cu
  \/ edit_info_die
  \/ edit_attribute
  \/ edit_attributes_end
  \/ edit_dwarf2_lines
  \/ edit_dwarf2_macro
  \/ edit_dwarf2_lines5
  \/ edit_dwarf2_strs
  \/ edit_dwarf2_post
  \/ main_layout
  \/ main_build_id
  \/ main_write
  \/ rerun

Spec == Init /\ [][Next]_vars

(***************************************************************************)
(* The utilities on their own: a call with arguments drawn from bounded    *)
(* sets, and its return                                                    *)
(***************************************************************************)

\* The longest path handed to a path utility.
MaxPath == 6

\* The bytes of a path: '/', '.' and 'a'.
PathBytes == {Slash, 46, 97}

\* The C strings over PathBytes of length n or less.
RECURSIVE PathsUpTo(_)
PathsUpTo(n) ==
  IF n = 0 THEN {<<>>}
  ELSE LET Longer(shorter) ==
             shorter
             \cup {Append(q, c) : q \in {r \in shorter : Len(r) = n - 1},
                                  c \in PathBytes}
       IN Longer(PathsUpTo(n - 1))

\* The calls of canonicalize_path.
CanonicalizeCalls ==
  {[fn |-> "canonicalize_path", s |-> q, done |-> FALSE, ret |-> NULLP] :
     q \in PathsUpTo(MaxPath)}

\* The longest directory prefix handed to skip_dir_prefix.
MaxPrefix == 2

\* The calls of skip_dir_prefix with the directory prefix b.
SkipDirPrefixCalls(b) ==
  {[fn |-> "skip_dir_prefix", path |-> q, dir_prefix |-> b, done |-> FALSE,
    ret |-> NULLP] : q \in PathsUpTo(MaxPath)}

\* The most bytes of an encoded ULEB128 number.
MaxUleb == 5

\* The ULEB128 encodings of n bytes: n - 1 bytes with the top bit set and
\* one without, over a few digit values.
RECURSIVE UlebOfLen(_)
UlebOfLen(n) ==
  IF n = 1 THEN {<<c>> : c \in {0, 1, 127}}
  ELSE {<<c>> \o u : c \in {128, 129, 255}, u \in UlebOfLen(n - 1)}

\* The calls of read_uleb128 followed by write_uleb128 of what was read.
UlebCalls ==
  {[fn |-> "uleb128", buf |-> u, done |-> FALSE, ret |-> NULLP] :
     u \in UNION {UlebOfLen(n) : n \in 1..MaxUleb}}

\* The 32-bit values of the relocated calls: 0, 1, 7, 0x7fffffff,
\* 0x80000000 and 0xffffffff.
Words == {0, 1, 7, INT32_MAX, INT32_MIN, UINT_MAX}

\* The calls of read_32_relocated, write_32_relocated of v and
\* read_32_relocated again at ptr of an eight byte section that has no
\* relocation section, or a REL or RELA one with records for none, one or
\* both of its words.
RelocatedCalls ==
  {[fn |-> "write_32_relocated", ei_data |-> e,
    sec |-> [data |-> dwarf2_write_le32(w0) \o dwarf2_write_be32(w1),
             relbuf |-> relbuf, reltype |-> reltype, rel_updated |-> FALSE],
    ptr |-> ptr, v |-> v, done |-> FALSE, ret |-> NULLP] :
     e \in {"ELFDATA2LSB", "ELFDATA2MSB"}, w0 \in Words, w1 \in {1, UINT_MAX},
     relbuf \in {<<>>}
                \cup {<<[ptr |-> q, addend |-> a]>> : q \in {0, 4}, a \in Words}
                \cup {<<[ptr |-> 0, addend |-> a], [ptr |-> 4, addend |-> 1]>> :
                        a \in Words},
     reltype \in {"SHT_REL", "SHT_RELA"}, ptr \in {0, 4}, v \in Words}

\* The 64-bit values of the relocation entries: 0, 7, 2^31, 2^32 and -1
\* for r_addend, 0 and 5 for st_value.
Addends == {<<0, 0>>, <<0, 7>>, <<0, INT32_MIN>>, <<1, 0>>, <<-1, -1>>}
SymValues == {<<0, 0>>, <<0, 5>>}

\* The calls of setup_relbuf, of a relocated read and write of v at wptr
\* (-1 for none) and of update_rela_data, on an eight byte section whose
\* relocation section, REL or RELA, has an entry for the word at 4 and one
\* for the word at 0, the second against a symbol of a debug section or
\* not, and of type R_X86_64_32 or not.
RelaCalls ==
  {[fn |-> "update_rela_data", ei_data |-> "ELFDATA2LSB",
    sec |-> [data |-> <<1, 0, 0, 0, 2, 0, 0, 0>>, relbuf |-> <<>>,
             reltype |-> "", rel_updated |-> FALSE],
    sh_type |-> sh_type,
    rels |-> <<[r_offset |-> 4, r_type |-> R_X86_64_32, r_addend |-> a1,
                st_value |-> s1, st_shndx_debug |-> TRUE],
               [r_offset |-> 0, r_type |-> t2, r_addend |-> a2,
                st_value |-> s2, st_shndx_debug |-> d2]>>,
    wptr |-> wptr, v |-> v, done |-> FALSE, ret |-> NULLP] :
     sh_type \in {"SHT_REL", "SHT_RELA"}, a1 \in Addends, s1 \in SymValues,
     a2 \in Addends, s2 \in SymValues, d2 \in BOOLEAN,
     t2 \in {R_X86_64_32, 1}, wptr \in {-1, 0, 4}, v \in {1, UINT_MAX}}

\* No program runs; one utility is about to be called.
UtilInit ==
  /\ \/ call \in CanonicalizeCalls \cup UlebCalls \cup RelocatedCalls
                  \cup RelaCalls
     \/ \E b \in PathsUpTo(MaxPrefix) : call \in SkipDirPrefixCalls(b)
  /\ base_dir = NULLP /\ dest_dir = NULLP /\ opt = NoOpt
  /\ list_file_fd = -1 /\ list_file = <<>>
  /\ ei_data = (IF call.fn = "write_32_relocated" THEN call.ei_data
                ELSE "ELFDATA2LSB")
  /\ phnum = 0 /\ heap = 0
  /\ disk = ElfFile(NoSections, 0)
  /\ run = 1
  /\ out1 = [disk |-> disk, stdout |-> <<>>, written |-> 0]
  /\ scn = fdopen_dso(disk).scn
  /\ shdr = fdopen_dso(disk).shdr
  /\ elf = fdopen_dso(disk).elf
  /\ need = NoNeed /\ lines = NoLines /\ dso_strings = NoStrings
  /\ cus = <<>> /\ phase = 0 /\ walk = NoWalk /\ edit_dwarf2_ret = -1
  /\ build_id = NoBuildId /\ diag = <<>> /\ stdout = <<>>
  /\ exit_code = -1 /\ written = 0
  /\ pc = "util"

\* What a utility call leaves alone.
program == <<cfg, list_file, disk, scn, shdr, elf, need, lines, dso_strings, cus, phase,
             walk, edit_dwarf2_ret, build_id, diag, stdout, exit_code,
             written, run, out1, pc>>

\* canonicalize_path (s, s) returns.
call_canonicalize_path ==
  /\ pc = "util" /\ call.fn = "canonicalize_path" /\ ~call.done
  /\ call' = [call EXCEPT !.done = TRUE, !.ret = canonicalize_path(call.s)]
  /\ UNCHANGED program

\* skip_dir_prefix (path, dir_prefix) returns.
call_skip_dir_prefix ==
  /\ pc = "util" /\ call.fn = "skip_dir_prefix" /\ ~call.done
  /\ call' = [call EXCEPT !.done = TRUE,
                          !.ret = skip_dir_prefix(call.path, call.dir_prefix)]
  /\ UNCHANGED program

\* "v = read_uleb128 (optr); write_uleb128 (ptr, v);": the value, the
\* number of bytes read and the bytes written.
call_uleb128 ==
  /\ pc = "util" /\ call.fn = "uleb128" /\ ~call.done
  /\ call' = [call EXCEPT
                !.done = TRUE,
                !.ret = [v |-> read_uleb128(call.buf, 0),
                         consumed |-> uleb128_len(call.buf, 0),
                         out |-> write_uleb128(read_uleb128(call.buf, 0))]]
  /\ UNCHANGED program

\* read_32_relocated, write_32_relocated of call.v and read_32_relocated
\* again, all at call.ptr, return.
call_write_32_relocated ==
  /\ pc = "util" /\ call.fn = "write_32_relocated" /\ ~call.done
  /\ LET Written(first, sec) ==
           call' = [call EXCEPT
                      !.done = TRUE,
                      !.ret = [first |-> first.dret, sec |-> sec,
                               second |-> read_32_relocated(sec, call.ptr).dret]]
         Read(first) ==
           Written(first, write_32_relocated(call.sec, first, call.ptr, call.v))
     IN Read(read_32_relocated(call.sec, call.ptr))
  /\ UNCHANGED program

\* setup_relbuf, then (unless call.wptr is -1) read_32_relocated and
\* write_32_relocated of call.v at call.wptr, then update_rela_data,
\* return: the section, the entries of the relocation section afterwards
\* and what error (1, ...) of setup_relbuf printed.
call_update_rela_data ==
  /\ pc = "util" /\ call.fn = "update_rela_data" /\ ~call.done
  /\ LET Flushed(sec, fatal) ==
           call' = [call EXCEPT
                      !.done = TRUE,
                      !.ret = [sec |-> sec, fatal |-> fatal,
                               rels |-> IF fatal # <<>> THEN call.rels
                                        ELSE update_rela_data(sec, call.rels)]]
         Written(sec) ==
           IF call.wptr = -1 THEN Flushed(sec, <<>>)
           ELSE Flushed(write_32_relocated(sec,
                          read_32_relocated(sec, call.wptr), call.wptr,
                          call.v),
                        <<>>)
         Setup(r) == IF r.fatal # <<>> THEN Flushed(r.sec, r.fatal)
                     ELSE Written(r.sec)
     IN Setup(setup_relbuf(call.sec, call.rels, call.sh_type))
  /\ UNCHANGED program

UtilNext ==
  \/ call_canonicalize_path
  \/ call_skip_dir_prefix
  \/ call_uleb128
  \/ call_write_32_relocated
  \/ call_update_rela_data

UtilSpec == UtilInit /\ [][UtilNext]_vars

(***************************************************************************)
(* Properties                                                              *)
(***************************************************************************)

\* The file the current run was started on.
InputFile == out1.disk

\* The bytes pat occur somewhere in buf.
Occurs(pat, buf) ==
  \E p \in 0..(Len(buf) - Len(pat)) :
    \A k \in 1..Len(pat) : buf[p + k] = pat[k]

NoFlagSet ==
  /\ ~need.need_strp_update /\ ~need.need_line_strp_update
  /\ ~need.need_string_replacement /\ ~need.need_stmt_update
  /\ ~need.dirty_elf

\* A finished run with dest_dir equal to base_dir and no build-ID option.
SameDirRun == pc = "done" /\ dest_dir = base_dir /\ ~opt.do_build_id

\* No section of the input holds the bytes of base_dir, so no path in it
\* begins with base_dir.
BaseDirAbsent == \A n \in SecNames : ~Occurs(base_dir, InputFile.data[n])

\* C1 as stated: a run with dest_dir equal to base_dir and no build-ID
\* option leaves every dirty flag unset and the file byte-identical to the
\* input, also when paths of the input begin with base_dir.
C1_AsStated == SameDirRun => NoFlagSet /\ disk = InputFile

\* C1, amended: a run with dest_dir equal to base_dir and no build-ID option
\* on an input none of whose paths begins with base_dir leaves every dirty
\* flag unset and the file byte-identical to the input.
C1_SameDirNoBasePath ==
  SameDirRun /\ BaseDirAbsent => NoFlagSet /\ disk = InputFile

\* Such a run has come to its end after walking the units of the input.
C1_Witness ==
  /\ SameDirRun /\ BaseDirAbsent /\ exit_code = 0 /\ Len(cus) > 0
  /\ NoFlagSet /\ disk = InputFile

\* edit_dwarf2 reported a format or constraint violation and returned 1.
FailureDetected == edit_dwarf2_ret = 1

\* C2: once edit_info or edit_dwarf2 has reported a failure, the run ends
\* without elf_update (ELF_C_WRITE) having been called, and the file holds
\* the bytes of the input.
C2_NoWriteAfterFailure ==
  pc = "done" /\ FailureDetected => written = 0 /\ disk = InputFile

\* C3: a run in which the DIE walker reported a format violation ends with
\* a nonzero exit code; exit code 0 is only seen without such a report.
C3_ViolationIsFatal ==
  pc = "done" /\ FailureDetected => exit_code # 0

\* The build-ID descriptor in the note payload note.
Descriptor(note) == Bytes(note, build_id.offset, build_id.size)

\* C4: a second run with the same seed on the output of a run that
\* recomputed the build-ID leaves the same note bytes, also when the first
\* run changed the size of .debug_str, .debug_line_str or .debug_line.
C4_BuildIdIdempotent ==
  pc = "done" /\ run > 1 /\ exit_code = 0 /\ ~opt.no_recompute_build_id
    => disk.data.note = InputFile.data.note

LowerHexDigits ==
  {"0", "1", "2", "3", "4", "5", "6", "7", "8", "9", "a", "b", "c", "d",
   "e", "f"}

\* handle_build_id left the hashing out.
RecomputeSkipped ==
  opt.no_recompute_build_id
  \/ (~need.dirty_elf /\ opt.build_id_seed = NULLP)

\* handle_build_id has returned.
BuildIdHandled == pc = "write" /\ opt.do_build_id /\ build_id.found

\* C5: for a descriptor of n > 0 bytes handle_build_id changes no byte of
\* the note but descriptor bytes [0, MIN (n, 16)), which hold the digest
\* when the ID was recomputed, and prints 2 * n lower case hexadecimal
\* digits, those of the descriptor as it is now, and a newline; with
\* no_recompute_build_id no byte changes and the existing ID is printed.
C5_BuildIdFrame ==
  BuildIdHandled =>
    LET n == build_id.size
        old == InputFile.data.note
        desc == Descriptor(scn.note)
    IN /\ n > 0
       /\ Len(scn.note) = Len(old)
       /\ \A i \in 1..Len(old) :
            (i <= build_id.offset \/ i > build_id.offset + MIN(n, 16))
              => scn.note[i] = old[i]
       /\ ~RecomputeSkipped =>
            scn.note = recompute_build_id([scn EXCEPT !.note = old],
                         opt.build_id_seed, build_id.offset, n)
       /\ Len(stdout) = 2 * n + 1
       /\ stdout[2 * n + 1] = "\n"
       /\ \A i \in 1..(2 * n) : stdout[i] \in LowerHexDigits
       /\ \A i \in 1..n :
            /\ stdout[2 * i - 1] = hex[(desc[i] \div 16) + 1]
            /\ stdout[2 * i] = hex[(desc[i] % 16) + 1]
       /\ opt.no_recompute_build_id => scn.note = old

\* A 20 byte ID has been recomputed: its first 16 bytes changed.
C5_Witness ==
  /\ BuildIdHandled /\ build_id.size = 20 /\ ~RecomputeSkipped
  /\ Bytes(scn.note, build_id.offset, 16)
       # Bytes(InputFile.data.note, build_id.offset, 16)
  /\ Bytes(scn.note, build_id.offset + 16, 4)
       = Bytes(InputFile.data.note, build_id.offset + 16, 4)

\* edit_attributes is at an attribute of form strp or line_strp.
AtStrpAttr ==
  /\ pc = "attr"
  /\ walk.i < walk.abbrev[walk.t].nattr
  /\ walk.form \in {DW_FORM.strp, DW_FORM.line_strp}

\* The attribute is one whose string is presented as a file path: with a
\* destination directory, DW_AT_comp_dir, or DW_AT_name of a compile or
\* partial unit.
IsFileAttr ==
  /\ dest_dir # NULLP
  /\ \/ cur_attr.attr = DW_AT.comp_dir
     \/ /\ cur_attr.attr = DW_AT.name
        /\ walk.abbrev[walk.t].tag \in {DW_TAG.compile_unit, DW_TAG.partial_unit}

\* The string at offset idx of the pool of form as the input has it.
OriginalStr(form, idx) == CStr(InputFile.data[PoolOf(form)], idx)

\* The replacement the rewrite intends for the file path str.
Intended(str) ==
  IF skip_dir_prefix(str, base_dir) = NULLP THEN str
  ELSE ReplacementPath(skip_dir_prefix(str, base_dir))

\* The offset the attribute holds, and the string the pool has at the
\* offset it holds after the step.
AttrOffset == do_read_32_relocated(debug_info, walk.ptr)

LookedUpStr ==
  CStr(scn[PoolOf(walk.form)], do_read_32_relocated(debug_info', walk.ptr))

\* C6 as stated, for the offsets presented as file paths: when phase 1
\* rewrites the offset of a file path attribute the new offset holds the
\* intended replacement, whatever the offset was registered as first.
C6_AsStated ==
  [][AtStrpAttr /\ phase = 1 /\ need.need_strp_update /\ IsFileAttr
     /\ pc' = "attr"
       => LookedUpStr = Intended(OriginalStr(walk.form, AttrOffset))]_vars

\* C6, amended: the first registration of an offset decides.  In phase 0
\* an offset not yet in the pool is registered with dest_dir[/tail] when
\* it is presented as a file path beginning with base_dir and with the
\* original string otherwise; an offset already in the pool keeps its
\* string; and the phase-1 lookup returns a new offset whose contents are
\* the string registered.
C6_FirstRegistrationWins ==
  [][LET Pool(pool, idx) ==
           /\ \A k \in 1..Len(pool.entries) :
                Len(dso_strings'[PoolOf(walk.form)].entries) >= k
                  => dso_strings'[PoolOf(walk.form)].entries[k]
                       = pool.entries[k]
           /\ AtStrpAttr /\ phase = 0 /\ pc' = "attr"
                => LET Registered(pool1) ==
                         /\ tfind(pool1, idx) # 0
                         /\ pool1.entries[tfind(pool1, idx)].str
                              = IF tfind(pool, idx) # 0
                                THEN pool.entries[tfind(pool, idx)].str
                                ELSE IF IsFileAttr
                                THEN Intended(OriginalStr(walk.form, idx))
                                ELSE OriginalStr(walk.form, idx)
                   IN Registered(dso_strings'[PoolOf(walk.form)])
           /\ AtStrpAttr /\ phase = 1 /\ need.need_strp_update
              /\ pc' = "attr"
                => LookedUpStr = pool.entries[tfind(pool, idx)].str
     IN Pool(dso_strings[PoolOf(walk.form)], AttrOffset)]_vars

\* Phase 1 has just rewritten the DW_AT_name of a unit whose offset was
\* registered as an ordinary string first: the path begins with base_dir
\* and the new offset holds the original string.
C6_Witness ==
  /\ pc = "attr" /\ phase = 1 /\ need.need_strp_update /\ walk.i >= 1
  /\ walk.abbrev[walk.t].tag = DW_TAG.compile_unit
  /\ walk.abbrev[walk.t].attr[walk.i].attr = DW_AT.name
  /\ walk.abbrev[walk.t].attr[walk.i].form = DW_FORM.strp
  /\ LET Was(old, new) ==
           /\ skip_dir_prefix(old, base_dir) # NULLP
           /\ new = old
           /\ new # Intended(old)
     IN Was(CStr(InputFile.data.debug_str,
                 do_read_32(InputFile.data.debug_info, walk.ptr - 4)),
            CStr(debug_str, do_read_32(debug_info, walk.ptr - 4)))

\* Phase 1 handles a DW_AT_stmt_list of form data4 or sec_offset and goes
\* on to the next attribute.
StmtListStep ==
  /\ pc = "attr" /\ walk.i < walk.abbrev[walk.t].nattr /\ is_stmt_list
  /\ phase = 1 /\ pc' = "attr"

\* No table of the registry changed size.
NoSizeChange == \A k \in 1..Len(lines.table) : lines.table[k].size_diff = 0

\* C7 as stated: phase 1 leaves in every DW_AT_stmt_list the new offset of
\* the table registered at the old one, and the old value when no table
\* changed size.
C7_AsStated ==
  [][StmtListStep /\ FindTable(lines.table, AttrOffset) # 0
       => LET Value(old, new, t) ==
                /\ new = t.new_idx
                /\ NoSizeChange => new = old
          IN Value(AttrOffset, do_read_32_relocated(debug_info', walk.ptr),
                   lines.table[FindTable(lines.table, AttrOffset)])]_vars

\* C7, amended: phase 1 leaves in every DW_AT_stmt_list whose old offset
\* has a table in the registry the new offset of that table, and the old
\* value when need_stmt_update is not set (.debug_line was not rebuilt);
\* phase 0 does not write to .debug_info.
C7_StmtListFollowsTable ==
  [][/\ StmtListStep
          => LET Value(old, new, k) ==
                   IF ~need.need_stmt_update THEN new = old
                   ELSE k # 0 => new = lines.table[k].new_idx
             IN Value(AttrOffset, do_read_32_relocated(debug_info', walk.ptr),
                      FindTable(lines.table, AttrOffset))
     /\ pc = "attr" /\ phase = 0 => debug_info' = debug_info]_vars

\* Phase 1 has just given a DW_AT_stmt_list the new offset of its table,
\* which differs from the old offset although no table changed size.
C7_Witness ==
  /\ pc = "attr" /\ phase = 1 /\ need.need_stmt_update /\ walk.i >= 1
  /\ walk.abbrev[walk.t].attr[walk.i].attr = DW_AT.stmt_list
  /\ NoSizeChange
  /\ LET Moved(old, new, k) ==
           k # 0 /\ new = lines.table[k].new_idx /\ new # old
     IN Moved(do_read_32(InputFile.data.debug_info, walk.ptr - 4),
              do_read_32(debug_info, walk.ptr - 4),
              FindTable(lines.table,
                        do_read_32(InputFile.data.debug_info, walk.ptr - 4)))

\* edit_dwarf2_line has emitted the new line section into line_buf.
LinesEmitted == lines.line_buf # <<>>

\* Where the bytes emitted for table k end.
EmittedEnd(k) ==
  IF k < Len(lines.table) THEN lines.table[k + 1].new_idx
  ELSE Len(lines.line_buf)

\* C8: edit_dwarf2_line writes 4 + unit_length + size_diff bytes for every
\* table, size_diff being what phase 0 added up, and the unit_length and
\* header_length fields it writes are the old ones plus size_diff.
C8_EmittedSize ==
  LinesEmitted =>
    \A k \in 1..Len(lines.table) :
      LET Sized(t) ==
            /\ EmittedEnd(k) - t.new_idx = 4 + t.unit_length + t.size_diff
            /\ do_read_32(lines.line_buf, t.new_idx)
                 = t.unit_length + t.size_diff
            /\ do_read_32(lines.line_buf, t.new_idx + 6)
                 = t.header_length + t.size_diff
      IN Sized(lines.table[k])

\* The bytes edit_dwarf2_line writes for table k from the old section.
Rebuilt(k) == emit_table(InputFile.data.debug_line, lines.table[k])

InlineCompDirStep ==
  /\ pc = "attr" /\ walk.i < walk.abbrev[walk.t].nattr
  /\ cur_attr.attr = DW_AT.comp_dir /\ walk.form = DW_FORM.string
  /\ phase = 1 /\ pc' = "attr"

\* The string begins with base_dir and its replacement is not longer.
Replaceable(str) ==
  /\ skip_dir_prefix(str, base_dir) # NULLP
  /\ Len(ReplacementPath(skip_dir_prefix(str, base_dir))) <= Len(str)

\* C10 as stated: phase 1 overwrites such a string in place with the
\* replacement dest_dir[/tail] followed by '/' up to the old length.
C10_AsStated ==
  [][InlineCompDirStep /\ Replaceable(CStr(debug_info, walk.ptr))
       => LET Padded(old, new) ==
                CStr(debug_info', walk.ptr)
                  = new \o Fill(Slash, Len(old) - Len(new))
          IN Padded(CStr(debug_info, walk.ptr),
                    ReplacementPath(skip_dir_prefix(CStr(debug_info, walk.ptr),
                                                    base_dir)))]_vars

\* C10, amended: phase 1 overwrites such a string in place, no other byte
\* of .debug_info changes, and the string becomes dest_dir, then '/' up to
\* the old length less the tail, then the tail: the padding lies between
\* dest_dir and the tail, and is trailing only when the tail is empty.
C10_PaddedInBetween ==
  [][InlineCompDirStep /\ Replaceable(CStr(debug_info, walk.ptr))
       => LET Padded(old, file) ==
                /\ CStr(debug_info', walk.ptr)
                     = dest_dir
                       \o Fill(Slash, Len(old) - Len(dest_dir) - Len(file))
                       \o file
                /\ Len(debug_info') = Len(debug_info)
                /\ \A k \in 1..Len(debug_info) :
                     (k <= walk.ptr \/ k > walk.ptr + Len(old))
                       => debug_info'[k] = debug_info[k]
          IN Padded(CStr(debug_info, walk.ptr),
                    skip_dir_prefix(CStr(debug_info, walk.ptr), base_dir))]_vars

\* Phase 1 has rewritten the inline comp_dir of the unit, a path with a
\* tail: it is now dest_dir, two or more '/' and the tail.
C10_Witness ==
  /\ pc = "attr" /\ phase = 1 /\ walk.i = 1
  /\ walk.abbrev[walk.t].attr[1].attr = DW_AT.comp_dir
  /\ walk.abbrev[walk.t].attr[1].form = DW_FORM.string
  /\ LET Was(old, new, file) ==
           /\ file # NULLP /\ Len(file) > 0
           /\ Len(old) - Len(dest_dir) - Len(file) >= 2
           /\ new = dest_dir
                    \o Fill(Slash, Len(old) - Len(dest_dir) - Len(file))
                    \o file
     IN Was(CStr(InputFile.data.debug_info, 12), CStr(debug_info, 12),
            skip_dir_prefix(CStr(InputFile.data.debug_info, 12), base_dir))

\* C11: canonicalize_path is idempotent: canonicalizing the path a call of
\* canonicalize_path returned gives that path again.
C11_CanonicalizeIdempotent ==
  call.fn = "canonicalize_path" /\ call.done
    => canonicalize_path(call.ret) = call.ret

\* canonicalize_path has returned "//a" for a path with "." and ".."
\* segments and repeated separators, which it had to change.
C11_Witness ==
  /\ call.fn = "canonicalize_path" /\ call.done
  /\ call.s = <<47, 47, 46, 47, 47, 97>>
  /\ call.ret = <<47, 47, 97>>

\* The path of the call is its dir_prefix, which has no trailing '/', then
\* '/', then a tail that does not begin with '/'.
PrefixSlashTail ==
  /\ call.fn = "skip_dir_prefix" /\ call.done
  /\ (call.dir_prefix = <<>>
        \/ call.dir_prefix[Len(call.dir_prefix)] # Slash)
  /\ HasPrefix(call.path, call.dir_prefix \o <<Slash>>)
  /\ CharAt(call.path, Len(call.dir_prefix) + 1) # Slash

\* C12: skip_dir_prefix (base + "/" + tail, base) succeeds and returns tail,
\* for base without a trailing '/' and tail not beginning with '/'.
C12_SkipPrefixReturnsTail ==
  PrefixSlashTail
    => /\ call.ret # NULLP
       /\ call.ret = SubSeq(call.path, Len(call.dir_prefix) + 2,
                            Len(call.path))

\* skip_dir_prefix has returned "a." for "/a/a." and the prefix "/a".
C12_Witness ==
  /\ PrefixSlashTail
  /\ call.dir_prefix = <<47, 97>>
  /\ call.path = <<47, 97, 47, 97, 46>>
  /\ call.ret = <<97, 46>>

\* The allocated sections of the object.
Allocated == {n \in SecNames : SHF_ALLOC(n) /\ InputFile.shdr[n].sh_size > 0}

\* C13 as stated: after any run every allocated section has the file
\* offset and the size it had in the input.
C13_AsStated ==
  pc = "done" /\ exit_code = 0
    => \A n \in Allocated : disk.shdr[n] = InputFile.shdr[n]

\* C13, amended: in a run on an object with program headers, where main
\* reflows the sections itself, no allocated section ever changes its file
\* offset or its size, neither in libelf's headers nor in the file.
C13_ReflowKeepsAllocated ==
  phnum # 0
    => \A n \in Allocated : /\ elf.shdr[n] = InputFile.shdr[n]
                             /\ disk.shdr[n] = InputFile.shdr[n]

\* A run on an object with program headers and an allocated section after
\* the debug sections has written the file with .debug_str at another
\* offset and with another size.
C13_Witness ==
  /\ pc = "done" /\ exit_code = 0 /\ written = 1 /\ run = 1 /\ phnum # 0
  /\ "eh_frame" \in Allocated
  /\ disk.shdr.debug_str.sh_offset # InputFile.shdr.debug_str.sh_offset
  /\ disk.shdr.debug_str.sh_size # InputFile.shdr.debug_str.sh_size
  /\ disk.shdr.eh_frame = InputFile.shdr.eh_frame

\* C14: write_uleb128 of the value read_uleb128 decoded emits as many bytes
\* as read_uleb128 consumed.
C14_UlebLengthPreserved ==
  call.fn = "uleb128" /\ call.done => Len(call.ret.out) = call.ret.consumed

\* Where the entry after the C string at p begins, dirs and files alike.
RECURSIVE AfterStrings(_, _)
AfterStrings(buf, p) ==
  IF ByteAt(buf, p) = 0 THEN p + 1
  ELSE AfterStrings(buf, p + strlen_at(buf, p) + 1)

\* Where the file table of the version 2-4 line table t begins when the
\* table lies at idx of buf.
FileTableStart(buf, idx, t) ==
  AfterStrings(buf, idx + LineHeaderSize(t.version) + t.opcode_base - 1)

\* The bytes of the (dir_idx, mtime, length) tuples of the file entries
\* from p on, one after the other.
RECURSIVE TupleBytes(_, _)
TupleBytes(buf, p) ==
  LET Entry(q) ==
        LET Next3(e) == Bytes(buf, q, e - q) \o TupleBytes(buf, e)
        IN Next3(uleb128_skip(buf, uleb128_skip(buf, uleb128_skip(buf, q))))
  IN IF ByteAt(buf, p) = 0 THEN <<>>
     ELSE Entry(p + strlen_at(buf, p) + 1)

\* C15: in every version 2-4 table rebuilt with file replacement the bytes
\* of the (dir_idx, mtime, length) tuples are those of the old table.
C15_TuplesVerbatim ==
  LinesEmitted =>
    \A k \in 1..Len(lines.table) :
      LET Same(t) ==
            t.replace_files =>
              TupleBytes(lines.line_buf,
                         FileTableStart(lines.line_buf, t.new_idx, t))
                = TupleBytes(InputFile.data.debug_line,
                             FileTableStart(InputFile.data.debug_line,
                                            t.old_idx, t))
      IN Same(lines.table[k])

\* The offsets of the entries of the index tables that update_str_offsets
\* walks from ptr on: those of the tables up to the first header that is
\* cut short, too long, not of version 5 or padded.
RECURSIVE TableEntries(_, _)
TableEntries(sec, ptr) ==
  LET Entries(unit_length) ==
        IF Big(unit_length) \/ Len(sec) - (ptr + 4) < unit_length
           \/ unit_length < 4
           \/ do_read_16(sec, ptr + 4) # 5 \/ do_read_16(sec, ptr + 6) # 0
        THEN {}
        ELSE {ptr + 8 + 4 * k : k \in 0..((unit_length - 4) \div 4 - 1)}
             \cup TableEntries(sec, ptr + 4 + unit_length)
  IN IF Len(sec) - ptr < 12 THEN {} ELSE Entries(do_read_32(sec, ptr))

\* The table entries whose offset phase 0 did not register.
UnusedEntries ==
  {p \in TableEntries(debug_str_offsets, 0) :
     tfind(dso_strings.debug_str, do_read_32(debug_str_offsets, p)) = 0}

\* C16: when .debug_str was rebuilt and there is a .debug_str_offsets
\* section, the step after the phases leaves in every table entry whose
\* offset was registered the new offset of its string, and in every other
\* table entry one and the same offset, at which the new .debug_str holds
\* "<debugedit>"; it prints one warning for each of the latter and the run
\* goes on.
C16_StrOffsetsUpdated ==
  [][pc = "post" /\ need.need_strp_update /\ debug_str_offsets # <<>>
       => /\ pc' = "tail" /\ exit_code' = exit_code
          /\ Len(debug_str_offsets') = Len(debug_str_offsets)
          /\ Len(diag') = Len(diag) + Cardinality(UnusedEntries)
          /\ \A p \in TableEntries(debug_str_offsets, 0) :
               LET Now(idx, new) ==
                     /\ ~Big(new) /\ new < Len(debug_str')
                     /\ CStr(debug_str', new)
                          = IF tfind(dso_strings.debug_str, idx) # 0
                            THEN dso_strings.debug_str.entries[
                                   tfind(dso_strings.debug_str, idx)].str
                            ELSE debugedit_stridxentry.str
               IN Now(do_read_32(debug_str_offsets, p),
                      do_read_32(debug_str_offsets', p))
          /\ \A p, q \in UnusedEntries :
               do_read_32(debug_str_offsets', p)
                 = do_read_32(debug_str_offsets', q)]_vars

\* A run that moved strings is past the update of the index table: the
\* table changed, the entry for "/bb/x" at 4 now leads to the replacement
\* of that path, the entry for the unused "/bb/x" at 19 leads to
\* "<debugedit>", and a warning was printed.
C16_Witness ==
  /\ pc = "tail" /\ need.need_strp_update /\ diag # <<>>
  /\ Len(InputFile.data.debug_str_offsets) = 28
  /\ do_read_32(InputFile.data.debug_str_offsets, 12) = 4
  /\ debug_str_offsets # InputFile.data.debug_str_offsets
  /\ CStr(debug_str, do_read_32(debug_str_offsets, 12))
       = dest_dir \o <<47, 120>>
  /\ do_read_32(InputFile.data.debug_str_offsets, 24) = 19
  /\ CStr(debug_str, do_read_32(debug_str_offsets, 24))
       = debugedit_stridxentry.str

\* The paths read_dwarf4_line builds for the files of the table whose file
\* table is at ptr, up to the first with a wrong directory index.
RECURSIVE SourcePaths(_, _, _, _)
SourcePaths(buf, ptr, comp_dir, dirt) ==
  LET File(file, value, p4) ==
        IF Big(value) \/ value >= Len(dirt) THEN <<>>
        ELSE <<SourcePath(comp_dir, dirt[value + 1], file)>>
             \o SourcePaths(buf, p4, comp_dir, dirt)
      At(p1) ==
        File(CStr(buf, ptr), read_uleb128(buf, p1),
             uleb128_skip(buf, uleb128_skip(buf, uleb128_skip(buf, p1))))
  IN IF ByteAt(buf, ptr) = 0 THEN <<>>
     ELSE At(ptr + strlen_at(buf, ptr) + 1)

\* The paths of the files of the table that the DIE at hand refers to.
PathsOfTable ==
  LET At(ptr) ==
        SourcePaths(debug_line,
                    ptr + Len(CStrings(dirt_from(debug_line, ptr))) + 1,
                    walk.comp_dir, <<(<<46>>)>> \o dirt_from(debug_line, ptr))
      Header(size) ==
        At(walk.list_offs + size
           + ByteAt(debug_line, walk.list_offs + size - 1) - 1)
  IN Header(LineHeaderSize(do_read_16(debug_line, walk.list_offs + 4)))

\* The canonical path s is dir or lies under it; what is left of it then.
UnderDir(s, dir) ==
  \/ s = dir
  \/ Len(s) > Len(dir) /\ SubSeq(s, 1, Len(dir)) = dir /\ s[Len(dir) + 1] = Slash

AfterDir(s, dir) == SubSeq(s, Len(dir) + 2, Len(s))

\* Phase 0 reads, with a list file and both directories given, the line
\* table of a unit, all of whose files have a directory.
ListsTable ==
  /\ pc = "attr" /\ walk.i = walk.abbrev[walk.t].nattr /\ phase = 0
  /\ walk.found_list_offs = 1 /\ list_file_fd # -1
  /\ base_dir # NULLP /\ dest_dir # NULLP
  /\ lines'.debug_lines_len > lines.debug_lines_len

UpToPhase1 ==
  /\ phase = 0
  /\ pc \in {"main", "edit_dwarf2", "phase", "cu", "die", "attr", "line",
             "macro", "line5", "str"}

NoAttr(at) == \A i \in 1..Len(debug_abbrev) : debug_abbrev[i] # at

\* C19: every CU record has str_offsets_base 0 when no unit of the object
\* has a DW_AT_str_offsets_base, and macros_offs 0 when none has a
\* DW_AT_macros; so find_macro_cu compares the offset of a macro unit with
\* 0 for such a CU.
C19_CuDefaults ==
  \A k \in 1..Len(cus) :
    /\ NoAttr(DW_AT.str_offsets_base) => cus[k].str_offsets_base = 0
    /\ NoAttr(DW_AT.macros) => cus[k].macros_offs = 0

\* The index of the record of relbuf at ptr, or 0.
RecordAt(relbuf, ptr) ==
  IF \A k \in 1..Len(relbuf) : relbuf[k].ptr # ptr THEN 0
  ELSE CHOOSE k \in 1..Len(relbuf) : relbuf[k].ptr = ptr

\* C20: after a read, a write of v and a second read at ptr, the second
\* read gives v.  With no record at ptr the four bytes at ptr are v and
\* nothing else changed; with a REL record they are v minus the addend
\* (modulo 2^32) and the record is as it was; with a RELA record the
\* addend is v, the bytes are as they were and rel_updated is set.
C20_RelocatedRoundTrip ==
  call.fn = "write_32_relocated" /\ call.done
    => LET Case(k, old, new) ==
             /\ call.ret.second = call.v
             /\ new.reltype = old.reltype
             /\ \A i \in 1..8 :
                  (i <= call.ptr \/ i > call.ptr + 4) => new.data[i] = old.data[i]
             /\ IF k = 0
                THEN /\ do_read_32(new.data, call.ptr) = call.v
                     /\ new.relbuf = old.relbuf
                     /\ new.rel_updated = old.rel_updated
                ELSE IF old.reltype = "SHT_REL"
                THEN /\ Add32(do_read_32(new.data, call.ptr),
                               old.relbuf[k].addend) = call.v
                     /\ new.relbuf = old.relbuf
                     /\ new.rel_updated = old.rel_updated
                ELSE /\ new.relbuf = [old.relbuf EXCEPT ![k].addend = call.v]
                     /\ new.data = old.data
                     /\ new.rel_updated
       IN Case(RecordAt(call.sec.relbuf, call.ptr), call.sec, call.ret.sec)

\* A write of 7 over a word that a REL record with addend 0xffffffff
\* relocates: the bytes in place became 8 and the second read gives 7.
C20_Witness ==
  /\ call.fn = "write_32_relocated" /\ call.done
  /\ call.sec.reltype = "SHT_REL" /\ call.ptr = 4 /\ call.v = 7
  /\ RecordAt(call.sec.relbuf, 4) = 1
  /\ call.sec.relbuf[1].addend = UINT_MAX
  /\ do_read_32(call.ret.sec.data, 4) = 8
  /\ call.ret.first # 7 /\ call.ret.second = 7

\* The names of the file entries from p on that read_dwarf4_line gets to:
\* those before the first entry with a wrong directory index.
RECURSIVE ScannedFiles(_, _, _)
ScannedFiles(buf, p, dirt_cnt) ==
  LET Entry(file, value, q) ==
        IF Big(value) \/ value >= dirt_cnt THEN <<>>
        ELSE <<file>> \o ScannedFiles(buf, q, dirt_cnt)
      File(file, q) ==
        Entry(file, read_uleb128(buf, q),
              uleb128_skip(buf, uleb128_skip(buf, uleb128_skip(buf, q))))
  IN IF ByteAt(buf, p) = 0 THEN <<>>
     ELSE File(CStr(buf, p), p + strlen_at(buf, p) + 1)

\* By how many bytes the strings strs grow in all when each of them that
\* lies under base_dir is written as dest_dir and its remainder.
RECURSIVE Growth(_)
Growth(strs) ==
  LET One(s, file_path) ==
        IF file_path = NULLP THEN 0 ELSE Len(ReplacementPath(file_path)) - Len(s)
  IN IF strs = <<>> THEN 0
     ELSE One(Head(strs), PlannedPath(Head(strs))) + Growth(Tail(strs))

\* The directory strings of the version 2-4 table t of the input.
DirsOfTable(t) ==
  dirt_from(InputFile.data.debug_line,
            t.old_idx + LineHeaderSize(t.version) + t.opcode_base - 1)

\* C22 as stated: the size delta of every table in the registry is
\* non-negative, whatever base_dir and dest_dir are.
C22_AsStated ==
  \A k \in 1..Len(lines.table) : lines.table[k].size_diff >= 0

\* C22, amended: the size delta of every version 2-4 table in the registry
\* is the number of bytes by which its scanned directory and file strings
\* grow when those under base_dir are replaced, which is negative when
\* dest_dir is shorter than what it replaces; a table none of whose strings
\* is replaced has the delta 0.
C22_DeltaIsGrowth ==
  \A k \in 1..Len(lines.table) :
    LET Is(t, dirs) ==
          /\ t.version < 5
               => t.size_diff
                    = Growth(dirs)
                      + Growth(ScannedFiles(InputFile.data.debug_line,
                                 FileTableStart(InputFile.data.debug_line,
                                                t.old_idx, t),
                                 Len(dirs) + 1))
          /\ ~t.replace_dirs /\ ~t.replace_files => t.size_diff = 0
    IN Is(lines.table[k], DirsOfTable(lines.table[k]))

\* The tables were emitted with dest_dir "/d" for base_dir "/bb", one of
\* them a byte shorter for its replaced directory.
C22_Witness ==
  /\ LinesEmitted /\ dest_dir = Dir_d /\ base_dir = Dir_bb
  /\ \E k \in 1..Len(lines.table) :
       /\ lines.table[k].replace_dirs
       /\ lines.table[k].size_diff = -1

\* The sum of 4 + unit_length + size_diff over the tables from index k on.
RECURSIVE TablesLen(_, _)
TablesLen(table, k) ==
  IF k > Len(table) THEN 0
  ELSE 4 + table[k].unit_length + table[k].size_diff + TablesLen(table, k + 1)

\* C23: when edit_dwarf2_line is about to allocate and fill the new
\* .debug_line buffer, the length it allocates, debug_lines_len, is the sum
\* of 4 + unit_length + size_diff over all tables in the registry.
C23_BufferHoldsTables ==
  pc = "line" /\ phase = 0 /\ need.need_stmt_update
    => lines.debug_lines_len = TablesLen(lines.table, 1)

\* edit_attributes goes through its loop with DW_FORM_indirect as the form
\* in hand, and goes on.
IndirectStep ==
  /\ pc = "attr" /\ walk.i < walk.abbrev[walk.t].nattr
  /\ walk.form = DW_FORM.indirect /\ pc' = "attr"

\* C24 as stated: a DIE attribute of DW_FORM_indirect is resolved once; the
\* form read is processed as it is and is not resolved again, so after a
\* resolution the form in hand is never DW_FORM_indirect.
C24_AsStated ==
  [][IndirectStep => walk'.form # DW_FORM.indirect]_vars

\* C24, amended: with DW_FORM_indirect in hand the walker reads one ULEB128
\* actual form, changes and registers nothing, stays at the attribute and
\* goes through the loop again with the form it read, also when that is
\* DW_FORM_indirect once more; the value is processed under the first form
\* read that is not DW_FORM_indirect: a strp read so is registered in
\* phase 0.
C24_IndirectResolvedInLoop ==
  [][/\ IndirectStep
          => /\ walk'.i = walk.i
             /\ walk'.form = read_uleb128(debug_info, walk.ptr)
             /\ walk'.ptr = uleb128_skip(debug_info, walk.ptr)
             /\ debug_info' = debug_info /\ dso_strings' = dso_strings
             /\ need' = need
     /\ (/\ pc = "attr" /\ walk.i < walk.abbrev[walk.t].nattr
         /\ cur_attr.form = DW_FORM.indirect /\ walk.form = DW_FORM.strp
         /\ phase = 0 /\ pc' = "attr")
          => /\ walk'.i = walk.i + 1 /\ walk'.ptr = walk.ptr + 4
             /\ tfind(dso_strings'.debug_str,
                      do_read_32_relocated(debug_info, walk.ptr)) # 0]_vars

\* Phase 1 has come to the strp of a name given as DW_FORM_indirect,
\* DW_FORM_indirect, DW_FORM_strp: the form was resolved twice.
C24_Witness ==
  /\ pc = "attr" /\ phase = 1 /\ walk.i = 0
  /\ cur_attr.form = DW_FORM.indirect /\ walk.form = DW_FORM.strp
  /\ ByteAt(debug_info, walk.ptr - 1) = DW_FORM.strp
  /\ ByteAt(debug_info, walk.ptr - 2) = DW_FORM.indirect
  /\ ByteAt(debug_info, walk.ptr - 3) = 1

\* edit_attributes goes through its loop for an attribute and goes on.
AttributeStep ==
  pc = "attr" /\ walk.i < walk.abbrev[walk.t].nattr /\ pc' = "attr"

\* The wire width in buf of the value at the cursor under the form in hand:
\* for DW_FORM_indirect the ULEB128 number that names the actual form.
WireWidth(buf) ==
  IF walk.form = DW_FORM.indirect THEN uleb128_len(buf, walk.ptr)
  ELSE FormWidthOf(DW_FORM, walk.form, buf, walk.ptr, cus[Len(cus)])

\* C25: in both phases the cursor advances over every attribute by the wire
\* width of its form, taken from the bytes of the input as well as from the
\* bytes the step leaves behind, so that phase 1 advances as phase 0 did
\* also where it rewrote the value; and a DIE begins in phase 1 with the
\* abbreviation code it had in the input.
C25_SameAdvance ==
  [][/\ AttributeStep
          => /\ walk'.ptr - walk.ptr = WireWidth(InputFile.data.debug_info)
             /\ walk'.ptr - walk.ptr = WireWidth(debug_info')
     /\ (pc = "die" /\ pc' = "attr")
          => /\ read_uleb128(debug_info, walk.ptr)
                  = read_uleb128(InputFile.data.debug_info, walk.ptr)
             /\ walk'.ptr = uleb128_skip(InputFile.data.debug_info, walk.ptr)
     ]_vars

\* Phase 1 has rewritten an inline comp_dir and stands behind its NUL with
\* the next attribute.
C25_Witness ==
  /\ pc = "attr" /\ phase = 1 /\ walk.i >= 1
  /\ walk.abbrev[walk.t].attr[walk.i].attr = DW_AT.comp_dir
  /\ walk.abbrev[walk.t].attr[walk.i].form = DW_FORM.string
  /\ ByteAt(debug_info, walk.ptr - 1) = 0
  /\ debug_info # InputFile.data.debug_info
  /\ SubSeq(debug_info, 1, walk.ptr) # SubSeq(InputFile.data.debug_info, 1, walk.ptr)

\* The r_offset of record ndx (from 0) of the relocation section rs in the
\* file D.
ROffsetIn(D, rs, ndx) ==
  do_read_32(D[rs], r_offset_at(ndx, sh_entsize(rs)))

\* C26: once the line tables are rebuilt and the relocations of .debug_line
\* walked, every relocation whose r_offset was inside a table T of the
\* registry (old_idx <= r_offset < old_idx + 4 + unit_length) has the
\* r_offset it had plus (new_idx - old_idx) + size_diff of T, also when it
\* was the first byte of a table that directly follows another table.
C26_RelocationsFollowTables ==
  LinesEmitted /\ line_relsec # "" /\ exit_code = -1 /\ pc # "line"
    => \A ndx \in 0..(Len(scn[line_relsec]) \div sh_entsize(line_relsec) - 1) :
         \A k \in 1..Len(lines.table) :
           LET Moved(t, old, new) ==
                 (t.old_idx <= old /\ old < t.old_idx + 4 + t.unit_length)
                   => new = old + (t.new_idx - t.old_idx) + t.size_diff
           IN Moved(lines.table[k],
                    ROffsetIn(InputFile.data, line_relsec, ndx),
                    ROffsetIn(scn, line_relsec, ndx))

\* ---------------------------------------------------------------------
\* C27: find_macro_cu

\* The CUs of the phase at hand whose macros_offs is the start of the
\* .debug_macro unit at offset 0, by the order edit_info parsed them in.
MacroCuMatches == {k \in 1..Len(cus) : cus[k].macros_offs = 0}

\* The .debug_str offset of DW_MACRO_define_strx 1 in the unit of the k-th
\* CU parsed.
StrxThrough(k) ==
  do_read_32_relocated(debug_str_offsets, cus[k].str_offsets_base + 4)

\* The phase 0 walk of the .debug_macro unit of an object of two CUs.
MacroCuStep ==
  /\ pc = "macro" /\ phase = 0 /\ Len(cus) = 2 /\ pc' = "line5"
  /\ debug_macro # <<>>
  /\ cus[1].str_offsets_base # cus[2].str_offsets_base

\* C27: the phase 0 walk of a .debug_macro unit registers the string of a
\* define_strx through the str_offsets_base of a CU whose macros_offs is
\* the offset of the unit and, when there is no such CU, through that of
\* the first CU parsed from .debug_info.
C27_FallbackFirstParsed ==
  [][MacroCuStep =>
       \E k \in (IF MacroCuMatches = {} THEN {1} ELSE MacroCuMatches) :
         tfind(dso_strings'.debug_str, StrxThrough(k)) # 0]_vars

\* ---------------------------------------------------------------------
\* C28: the strings looked up in phase 1

\* C28: no walk of phase 1 (of .debug_info, of .debug_macro, of the
\* version 5 line tables) looks up a string offset that phase 0 did not
\* register: the assertion of string_find_entry does not fail.
C28_LookupsRegistered ==
  [][(phase = 1 /\ pc \in {"attr", "macro", "line5"}) => exit_code' # 134]_vars

\* ---------------------------------------------------------------------
\* C29: the offsets find_new_list_offs translates

\* The line offsets of the .debug_macro units from ptr on (a unit begins at
\* the start of the section and after a 0 operation).
RECURSIVE MacroLineOffsets(_, _)
MacroLineOffsets(sec, ptr) ==
  IF ptr + 7 > Len(sec) THEN {}
  ELSE (IF /\ ptr = 0 \/ ByteAt(sec, ptr - 1) = 0
           /\ do_read_16(sec, ptr) \in {4, 5} /\ ByteAt(sec, ptr + 2) = 2
        THEN {do_read_32_relocated(sec, ptr + 3)} ELSE {})
       \cup MacroLineOffsets(sec, ptr + 1)

\* C29: when phase 1 is about to translate the offset of a DW_AT_stmt_list
\* or the line offsets of the .debug_macro units, the registry is sorted by
\* old_idx and has a table at every such offset.
C29_TranslationFindsTable ==
  /\ (pc = "attr" /\ phase = 1 /\ walk.i < walk.abbrev[walk.t].nattr
      /\ is_stmt_list /\ need.need_stmt_update)
       => /\ TablesSorted(lines.table)
          /\ FindTable(lines.table,
                       do_read_32_relocated(debug_info, walk.ptr)) # 0
  /\ (pc = "macro" /\ phase = 1
      /\ (need.need_strp_update \/ need.need_stmt_update))
       => \A off \in MacroLineOffsets(debug_macro, 0) :
            /\ TablesSorted(lines.table)
            /\ FindTable(lines.table, off) # 0

\* ---------------------------------------------------------------------
\* C30: the layout after the reflow

\* main has reflowed the sections: the object has program headers and
\* edit_dwarf2 flagged a section whose size may have changed.
Reflowed ==
  /\ phnum # 0
  /\ pc \in {"build_id", "write"} \/ (pc = "done" /\ exit_code = 0)
  /\ need.need_strp_update \/ need.need_line_strp_update
     \/ need.need_stmt_update

\* The sections of the object that are not allocated, and where section n
\* ends in the file by libelf's headers.
Unallocated == {n \in SecNames : HasScn(n) /\ ~SHF_ALLOC(n)}
SecEnd(n) == elf.shdr[n].sh_offset + elf.shdr[n].sh_size
SecIndex(n) == CHOOSE k \in 1..Len(SecOrder) : SecOrder[k] = n

\* After the reflow every unallocated section is aligned, lies after the
\* program headers and after every allocated section, no two of them
\* overlap, and the section header table starts after the last section.
ReflowPlacement ==
  /\ \A n \in Unallocated :
       /\ elf.shdr[n].sh_offset % sh_addralign(n) = 0
       /\ elf.shdr[n].sh_offset >= e_phoff + phnum * PhdrSize
       /\ \A a \in Allocated : elf.shdr[n].sh_offset >= SecEnd(a)
       /\ \A m \in Unallocated \ {n} :
            SecEnd(n) <= elf.shdr[m].sh_offset
            \/ SecEnd(m) <= elf.shdr[n].sh_offset
  /\ \A n \in {m \in SecNames : HasScn(m)} : elf.e_shoff >= SecEnd(n)

\* C30 as stated: after the reflow the unallocated sections are placed as
\* above and the sections of the object lie in the file in the order of
\* their section indexes.
C30_AsStated ==
  Reflowed
    => /\ ReflowPlacement
       /\ \A n, m \in {s \in SecNames : HasScn(s)} :
            SecIndex(n) < SecIndex(m)
              => elf.shdr[n].sh_offset <= elf.shdr[m].sh_offset

\* C30, amended: after the reflow the unallocated sections are placed as
\* above and lie in the file in the order of their section indexes, one
\* ending before the next begins; an allocated section stays where it was,
\* before all of them, whatever its index.
C30_ReflowLayout ==
  Reflowed
    => /\ ReflowPlacement
       /\ \A n, m \in Unallocated :
            SecIndex(n) < SecIndex(m) => SecEnd(n) <= elf.shdr[m].sh_offset
       /\ \A a \in Allocated : elf.shdr[a] = InputFile.shdr[a]

\* The reflow has moved an 8-byte aligned section to an offset that the
\* end of the section before it is not a multiple of, in an object whose
\* .debug_line changed its size and whose last section is allocated.
C30_Witness ==
  /\ Reflowed /\ pc = "done"
  /\ "eh_frame" \in Allocated
  /\ "rela_debug_line" \in Unallocated
  /\ elf.shdr.debug_line.sh_size # InputFile.shdr.debug_line.sh_size
  /\ elf.shdr.rela_debug_line.sh_offset > SecEnd("debug_str")
  /\ elf.shdr.rela_debug_line.sh_offset
       # InputFile.shdr.rela_debug_line.sh_offset
  /\ elf.shdr.debug_info.sh_offset > elf.shdr.eh_frame.sh_offset

\* ---- C21 ----
\* A flush has returned: setup_relbuf took the relocation section, the
\* relocated write (if any) is done, update_rela_data has run.
FlushReturned ==
  /\ pc = "util" /\ call.fn = "update_rela_data" /\ call.done
  /\ call.ret.fatal = <<>>

\* Entry k (1-based) of the relocation section has a record in relbuf.
RelIndexed(k) ==
  \E i \in 1..Len(call.ret.sec.relbuf) : call.ret.sec.relbuf[i].ndx = k - 1

\* Entry k is the one the relocated write went to.
RelWritten(k) ==
  /\ RelIndexed(k) /\ call.sh_type = "SHT_RELA"
  /\ call.wptr = call.rels[k].r_offset

\* What every flush does: entries change only when the section is marked
\* rel_updated, the mark is only on RELA sections, entries without a record
\* stay, and the entry written to has r_addend + st_value = the value written.
FlushCommon ==
  /\ (call.ret.rels # call.rels) => call.ret.sec.rel_updated
  /\ call.ret.sec.rel_updated => call.sh_type = "SHT_RELA"
  /\ \A k \in 1..Len(call.rels) :
       /\ ~RelIndexed(k) => call.ret.rels[k] = call.rels[k]
       /\ (call.ret.sec.rel_updated /\ RelWritten(k))
            => Add64(call.ret.rels[k].r_addend, call.rels[k].st_value)
               = <<0, call.v>>

\* C21 as stated: update_rela_data touches only sections marked rel_updated,
\* which are RELA sections; every indexed entry's r_addend becomes
\* record.addend - st_value, so an entry never written gets back exactly its
\* original r_addend and a written entry's r_addend + st_value is the value
\* written.
C21_AsStated ==
  FlushReturned =>
    /\ FlushCommon
    /\ \A k \in 1..Len(call.rels) :
         (call.ret.sec.rel_updated /\ RelIndexed(k) /\ ~RelWritten(k))
           => call.ret.rels[k].r_addend = call.rels[k].r_addend

\* C21, amended: update_rela_data touches only sections marked rel_updated,
\* which are RELA sections; every indexed entry's r_addend becomes
\* record.addend - st_value, a written entry's r_addend + st_value is the
\* value written, and an entry never written gets r_addend + st_value cut to
\* its low 32 bits, minus st_value: its original r_addend exactly when
\* r_addend + st_value fits in 32 bits unsigned, another value otherwise.
C21_FlushRelocations ==
  FlushReturned =>
    /\ FlushCommon
    /\ \A k \in 1..Len(call.rels) :
         (call.ret.sec.rel_updated /\ RelIndexed(k) /\ ~RelWritten(k))
           => /\ Add64(call.ret.rels[k].r_addend, call.rels[k].st_value)
                 = <<0, Add64(call.rels[k].r_addend, call.rels[k].st_value)[2]>>
              /\ (call.ret.rels[k].r_addend = call.rels[k].r_addend)
                 <=> (Add64(call.rels[k].r_addend, call.rels[k].st_value)[1] = 0)

\* A flush of a RELA section with two records, sorted into the other order,
\* one written and one not, against symbols at 5; the unwritten entry's
\* r_addend is -1, which with the symbol's 5 fits in 32 bits.
C21_Witness ==
  /\ FlushReturned /\ call.ret.sec.rel_updated
  /\ Len(call.ret.sec.relbuf) = 2 /\ call.ret.sec.relbuf[1].ndx = 1
  /\ RelWritten(1) /\ ~RelWritten(2)
  /\ call.rels[1].st_value = <<0, 5>> /\ call.rels[2].st_value = <<0, 5>>
  /\ call.rels[2].r_addend = <<-1, -1>>
  /\ call.ret.rels[2].r_addend = <<-1, -1>>
  /\ call.ret.rels[1].r_addend # call.rels[1].r_addend

====
